---- MODULE Spec2Model ----
(***************************************************************************)
(* Refresh task orchestration of core/login_service.py (LoginService):     *)
(* admission under the orchestrator lock (start_login / _scheduled_tick),  *)
(* the sequential run loop (_run_login_async), the per-identity scheduling *)
(* state (_update_scheduled_refresh_state_sync), the candidate selector    *)
(* (_build_advanced_scheduled_candidates) and the post-batch egress        *)
(* rotation hook (_rotate_mihomo_proxy_best_effort).                       *)
(*                                                                         *)
(* Time is in whole seconds, durations and the average duration in         *)
(* milliseconds (the code rounds both to 3 decimals).                      *)
(***************************************************************************)
EXTENDS Integers, Sequences, FiniteSets, TLC

VARIABLES
    tasks,      \* self._tasks: insertion-ordered; a task's id is its index
    queue,      \* ids of the tasks waiting for the orchestrator, oldest first
    current,    \* self._current_task_id (0 = None)
    holders,    \* the admissions inside "async with self._lock"
    accounts,   \* the identity population, in load order
    store,      \* scheduled_refresh_state of every identity
    now,        \* time.time()
    mihomo,     \* the coordinator's counters and the rotator's group
    cfg,        \* config.retry / environment consumed by the core
    polling     \* self._is_polling and the start_polling coroutines

vars == <<tasks, queue, current, holders, accounts, store, now, mihomo, cfg, polling>>

-----------------------------------------------------------------------------
(* Bounds of the model *)

MaxTasks == 2        \* tasks created in one behaviour of Spec
MaxRunTasks == 1     \* tasks created in one behaviour of SpecRun
MaxCancelTasks == 2  \* tasks created in one behaviour of SpecCancel
MaxRotTasks == 2     \* tasks created in one behaviour of SpecRot
MaxAccounts == 51    \* identities of the largest population in SpecBatch
MaxStoreTasks == 1   \* tasks created in one behaviour of SpecStore
MaxElapsed == 4      \* ten-minute steps of the clock in one behaviour of SpecReturn
MaxClassTasks == 1   \* tasks created in one behaviour of SpecClass
MaxLiveTasks == 2    \* tasks created in one behaviour of SpecLive
MaxOrderAccounts == 6 \* identities in SpecOrder
MaxAvgTasks == 1     \* tasks created in one behaviour of SpecAvg
MaxLoops == 2        \* calls of start_polling that start a loop
MaxPollTasks == 1    \* tasks created in one behaviour of SpecPoll
MaxSimpleTasks == 2  \* tasks created in one behaviour of SpecSimple
MaxAdvTasks == 2     \* tasks created in one behaviour of SpecAdvanced
MaxBusyTasks == 2    \* tasks created in one behaviour of SpecBusy
MaxFairTasks == 3    \* tasks created in one behaviour of SpecFair
MaxStreak == 20      \* consecutive failures of one identity in SpecBackoff
T0 == 20000          \* time.time() of the initial state

(* Program constants *)

SCHEDULED_REFRESH_MIN_BATCH_SIZE == 5
SCHEDULED_REFRESH_DEFAULT_SERVICE_MS == 60000
SCHEDULED_REFRESH_BACKOFF_BASE_SECONDS == 900
SCHEDULED_REFRESH_BACKOFF_MAX_SECONDS == 43200
AlphaNum == 2        \* SCHEDULED_REFRESH_AVG_ALPHA = 0.2 = AlphaNum / AlphaDen
AlphaDen == 10
LifetimeSeconds == 43200   \* a fresh credential expires 12 h after the login

IDS == {"a", "b", "c"}
None == 0

PENDING == "pending"
RUNNING == "running"
SUCCESS == "success"
FAILED == "failed"
CANCELLED == "cancelled"
Terminal == {SUCCESS, FAILED, CANCELLED}

-----------------------------------------------------------------------------
(* Sequence helpers *)

Max(a, b) == IF a >= b THEN a ELSE b
Min(a, b) == IF a <= b THEN a ELSE b

Range(s) == {s[i] : i \in 1..Len(s)}

IsPrefix(s, t) == Len(s) <= Len(t) /\ SubSeq(t, 1, Len(s)) = s

RECURSIVE Pow2(_)
Pow2(n) == IF n <= 0 THEN 1 ELSE 2 * Pow2(n - 1)

-----------------------------------------------------------------------------
(* Backoff and fairness calculator *)

\* ComputeBackoffSeconds without the cap of 12 hours
ComputeBackoffNoCap(consecutive_failures) ==
    SCHEDULED_REFRESH_BACKOFF_BASE_SECONDS * Pow2(Min(Max(consecutive_failures, 1) - 1, 20))

\* _compute_backoff_seconds.  Python's integers do not overflow; the exponent
\* is clipped at 20 here, far beyond the point (n = 7) where the cap applies.
ComputeBackoffSeconds(consecutive_failures) ==
    LET n == Max(consecutive_failures, 1)
        backoff == SCHEDULED_REFRESH_BACKOFF_BASE_SECONDS * Pow2(Min(n - 1, 20))
    IN Min(backoff, SCHEDULED_REFRESH_BACKOFF_MAX_SECONDS)

\* _compute_hrrn_score is (w + s) / s: s floored at 1 s (60 s when
\* missing), w floored at 0.  Scores are compared exactly, as fractions.
ServiceMs(service_ms) ==
    Max(IF service_ms = 0 THEN SCHEDULED_REFRESH_DEFAULT_SERVICE_MS ELSE service_ms, 1000)

\* a wait measured from now back to the attempt, the wrong way round
WaitSecondsReversed(now_ts, last_attempt_at) == Max(last_attempt_at - now_ts, 0)

WaitSeconds(now_ts, last_attempt_at) == Max(now_ts - last_attempt_at, 0)

\* score(a) > score(b) for waits in seconds and service times in ms:
\* (wa*1000 + sa)/sa > (wb*1000 + sb)/sb  <=>  wa * sb > wb * sa
ScoreGreater(wa, sa, wb, sb) == wa * sb > wb * sa

ComputeHrrnGreater(now_ts, la, sa, lb, sb) ==
    ScoreGreater(WaitSeconds(now_ts, la), ServiceMs(sa), WaitSeconds(now_ts, lb), ServiceMs(sb))

-----------------------------------------------------------------------------
(* Identity health state store *)

\* A missing scheduled_refresh_state ({}): every .get() falls to its default.
AbsentState ==
    [present |-> FALSE, last_attempt_at |-> 0, last_success_at |-> 0,
     avg_ms |-> 0, consecutive_failures |-> 0, next_eligible_at |-> 0,
     last_error |-> ""]

\* OldAvgMs without the floor of one second
OldAvgMsNoFloor(st) == IF st.present THEN st.avg_ms ELSE 60000

\* old_avg of _update_scheduled_refresh_state_sync (lines 412-417)
OldAvgMs(st) ==
    Max(IF st.present THEN st.avg_ms ELSE SCHEDULED_REFRESH_DEFAULT_SERVICE_MS, 1000)

\* new_avg (lines 420-426) rounded to 3 decimals (line 446): the value
\* old*0.8 + dur*0.2 in ms has a fraction in {0, .2, .4, .6, .8}.
NewAvgMs(st, dur_ms) ==
    IF dur_ms > 0
    THEN (OldAvgMs(st) * (AlphaDen - AlphaNum) + dur_ms * AlphaNum + AlphaDen \div 2) \div AlphaDen
    ELSE OldAvgMs(st)

\* The streak written on a failure (lines 433-436)
FailureStreak(st) == st.consecutive_failures + 1

\* NewRefreshState in which a success leaves next_eligible_at as it was
NewRefreshStateKeepBackoff(st, success, dur_ms, err, now_ts) ==
    [present |-> TRUE,
     last_attempt_at |-> now_ts,
     last_success_at |-> IF success THEN now_ts ELSE st.last_success_at,
     avg_ms |-> IF dur_ms > 0
                THEN (Max(IF st.present THEN st.avg_ms ELSE 60000, 1000) * 8 + dur_ms * 2 + 5) \div 10
                ELSE Max(IF st.present THEN st.avg_ms ELSE 60000, 1000),
     consecutive_failures |-> IF success THEN 0 ELSE st.consecutive_failures + 1,
     next_eligible_at |-> IF success THEN st.next_eligible_at
                          ELSE now_ts + 900 * Pow2(Min(st.consecutive_failures, 6)),
     last_error |-> err]

\* NewRefreshState in which a failure classified as a network failure is
\* backed off for the base interval only
NewRefreshStateByCategory(st, success, dur_ms, err, now_ts) ==
    [present |-> TRUE,
     last_attempt_at |-> now_ts,
     last_success_at |-> IF success THEN now_ts ELSE st.last_success_at,
     avg_ms |-> IF dur_ms > 0
                THEN (Max(IF st.present THEN st.avg_ms ELSE 60000, 1000) * 8 + dur_ms * 2 + 5) \div 10
                ELSE Max(IF st.present THEN st.avg_ms ELSE 60000, 1000),
     consecutive_failures |-> IF success THEN 0 ELSE st.consecutive_failures + 1,
     next_eligible_at |-> IF success THEN 0
                          ELSE IF err = "dns error" THEN now_ts + 900
                          ELSE now_ts + 900 * Pow2(Min(st.consecutive_failures, 6)),
     last_error |-> err]

\* new_state of _update_scheduled_refresh_state_sync (lines 428-451)
NewRefreshState(st, success, dur_ms, err, now_ts) ==
    [present |-> TRUE,
     last_attempt_at |-> now_ts,
     last_success_at |-> IF success THEN now_ts ELSE st.last_success_at,
     avg_ms |-> NewAvgMs(st, dur_ms),
     consecutive_failures |-> IF success THEN 0 ELSE FailureStreak(st),
     next_eligible_at |-> IF success THEN 0
                          ELSE now_ts + ComputeBackoffSeconds(FailureStreak(st)),
     last_error |-> err]

-----------------------------------------------------------------------------
(* Candidate selector *)

\* The skips of _build_advanced_scheduled_candidates / _get_expiring_accounts
\* that precede the backoff filter: disabled, no mail credentials, no
\* expires_at, outside the refresh window.
InWindow(acc, now_ts, window) ==
    /\ ~acc.disabled
    /\ acc.eligible
    /\ acc.expires_at # 0
    /\ ~(acc.expires_at - now_ts > window)

\* a selector that ignores next_eligible_at
InBackoffIgnored(st, now_ts) == FALSE

\* a backoff that still holds at next_eligible_at itself
InBackoffInclusive(st, now_ts) == st.next_eligible_at # 0 /\ st.next_eligible_at >= now_ts

InBackoff(st, now_ts) == st.next_eligible_at # 0 /\ st.next_eligible_at > now_ts

Candidate(acc, st, now_ts) ==
    [account_id |-> acc.id,
     waiting_seconds |-> WaitSeconds(now_ts, st.last_attempt_at),
     service_ms |-> ServiceMs(st.avg_ms),
     next_eligible_at |-> st.next_eligible_at]

\* SortByScore that leaves the candidates in load order
SortByLoadOrder(cs) == cs

\* candidates.sort(key=score, reverse=True): stable, so a candidate stands
\* behind every candidate with a greater score and behind every earlier
\* candidate whose score is not smaller than its own.
SortByScore(cs) ==
    LET Before(c, i, j) ==
            \/ ScoreGreater(c[i].waiting_seconds, c[i].service_ms,
                            c[j].waiting_seconds, c[j].service_ms)
            \/ /\ ~ScoreGreater(c[j].waiting_seconds, c[j].service_ms,
                                c[i].waiting_seconds, c[i].service_ms)
               /\ i < j
        Rank(c, i) == 1 + Cardinality({j \in 1..Len(c) : Before(c, j, i)})
        Sorted(c) == [p \in 1..Len(c) |-> c[CHOOSE i \in 1..Len(c) : Rank(c, i) = p]]
    IN CHOOSE s \in {Sorted(c) : c \in {cs}} : TRUE

\* The loop of lines 845-914: the accounts that pass the skips are counted
\* (considered) and are either skipped for backoff or appended, in load
\* order, as candidates.
ScanAccounts(accts, st, now_ts, window) ==
    LET Passes(acc) == InWindow(acc, now_ts, window)
        Skipped(acc) == Passes(acc) /\ InBackoff(st[acc.id], now_ts)
        Kept(acc) == Passes(acc) /\ ~InBackoff(st[acc.id], now_ts)
        kept == SelectSeq(accts, Kept)
    IN [candidates |-> [k \in 1..Len(kept) |-> Candidate(kept[k], st[kept[k].id], now_ts)],
        considered |-> Len(SelectSeq(accts, Passes)),
        skipped_backoff |-> Len(SelectSeq(accts, Skipped))]

BuildAdvancedScheduledCandidates(accts, st, now_ts, window) ==
    LET scan == ScanAccounts(accts, st, now_ts, window)
    IN [candidates |-> SortByScore(scan.candidates),
        metrics |-> [considered |-> scan.considered,
                     candidates |-> Len(scan.candidates),
                     skipped_backoff |-> scan.skipped_backoff]]

\* _get_expiring_accounts: the same skips, no backoff filter, load order
RECURSIVE GetExpiringAccounts(_, _, _)
GetExpiringAccounts(accts, now_ts, window) ==
    IF accts = <<>> THEN <<>>
    ELSE LET acc == accts[Len(accts)]
             rest == GetExpiringAccounts(SubSeq(accts, 1, Len(accts) - 1), now_ts, window)
         IN IF InWindow(acc, now_ts, window) THEN Append(rest, acc.id) ELSE rest

\* a batch size without the minimum of 5
BatchSizeNoFloor(n_candidates, max_batch) == Min(n_candidates, max_batch)

\* batch_size and selected_ids of _scheduled_tick (lines 965-968)
BatchSize(n_candidates, max_batch) ==
    Min(n_candidates, Max(max_batch, SCHEDULED_REFRESH_MIN_BATCH_SIZE))

SelectedIds(cands, max_batch) ==
    [i \in 1..BatchSize(Len(cands), max_batch) |-> cands[i].account_id]

-----------------------------------------------------------------------------
(* Refresh tasks and admission *)

\* LoginTask(id, account_ids, trigger) with BaseTask's defaults.  pc is the
\* position of the coroutine that runs the task; stopped tells that a cancel
\* hook has quit the browser of the identity in flight.
NewTask(ids, trigger) ==
    [account_ids |-> ids, trigger |-> trigger, status |-> PENDING,
     progress |-> 0, success_count |-> 0, fail_count |-> 0, results |-> <<>>,
     cancel_requested |-> FALSE, finished |-> FALSE, hook |-> "not_called",
     stopped |-> FALSE, pc |-> "queued"]

Active(t) == t.status \in {PENDING, RUNNING}

\* GetRunningTask that takes the first task whatever its status
GetRunningTaskAnyStatus(ts) == IF ts = <<>> THEN None ELSE 1

\* _get_running_task: the first PENDING/RUNNING task, or None
GetRunningTask(ts) ==
    IF \E i \in 1..Len(ts) : Active(ts[i])
    THEN CHOOSE i \in 1..Len(ts) : Active(ts[i]) /\ \A j \in 1..(i - 1) : ~Active(ts[j])
    ELSE None

\* NewAccounts without the membership filter
NewAccountsUnfiltered(normalized, existing) == normalized

\* new_accounts of the manual merge (line 141)
RECURSIVE NewAccounts(_, _)
NewAccounts(normalized, existing) ==
    IF normalized = <<>> THEN <<>>
    ELSE IF Head(normalized) \in Range(existing)
         THEN NewAccounts(Tail(normalized), existing)
         ELSE <<Head(normalized)>> \o NewAccounts(Tail(normalized), existing)

\* MergeAccounts that assigns the new ids instead of extending the list
MergeAccountsAssign(existing, new_accounts) ==
    IF new_accounts = <<>> THEN existing ELSE new_accounts

\* MergeAccounts that puts the new ids in front
MergeAccountsInFront(existing, new_accounts) == new_accounts \o existing

\* running_task.account_ids.extend(new_accounts) (line 143)
MergeAccounts(existing, new_accounts) == existing \o new_accounts

\* SameListTask comparing the lists as sets
SameSetTask(ts, normalized) ==
    LET same(i) == Range(ts[i].account_ids) = Range(normalized) /\ Active(ts[i])
    IN IF \E i \in 1..Len(ts) : same(i)
       THEN CHOOSE i \in 1..Len(ts) : same(i) /\ \A j \in 1..(i - 1) : ~same(j)
       ELSE None

\* The scheduled dedupe (lines 154-160): the first PENDING/RUNNING task
\* with exactly this list, or None
SameListTask(ts, normalized) ==
    LET same(i) == ts[i].account_ids = normalized /\ Active(ts[i])
    IN IF \E i \in 1..Len(ts) : same(i)
       THEN CHOOSE i \in 1..Len(ts) : same(i) /\ \A j \in 1..(i - 1) : ~same(j)
       ELSE None

\* _enqueue_task: the task joins the orchestrator's queue
EnqueueTask(q, id) == Append(q, id)

\* _start_login_locked after its check of the list (lines 135-166): the
\* task set and queue it leaves, and what it returns (ret = the task's id).
Admit(ts, q, ids, trigger) ==
    LET running == IF trigger = "manual" THEN GetRunningTask(ts) ELSE None
        same == SameListTask(ts, ids)
    IN IF running # None
       THEN [tasks |-> [ts EXCEPT ![running].account_ids =
                           MergeAccounts(@, NewAccounts(ids, @))],
             queue |-> q, ret |-> running, error |-> FALSE, created |-> FALSE]
       ELSE IF same # None
            THEN [tasks |-> ts, queue |-> q, ret |-> same, error |-> FALSE, created |-> FALSE]
            ELSE [tasks |-> Append(ts, NewTask(ids, trigger)),
                  queue |-> EnqueueTask(q, Len(ts) + 1),
                  ret |-> Len(ts) + 1, error |-> FALSE, created |-> TRUE]

\* StartLoginLocked without the check of the list
StartLoginLockedUnchecked(ts, q, ids, trigger) == Admit(ts, q, ids, trigger)

\* _start_login_locked: an empty list raises ValueError (error = TRUE)
\* before anything else is done (lines 132-133).
StartLoginLocked(ts, q, ids, trigger) ==
    IF ids = <<>>
    THEN [tasks |-> ts, queue |-> q, ret |-> None, error |-> TRUE, created |-> FALSE]
    ELSE Admit(ts, q, ids, trigger)

\* _get_queue_status_locked and the busy test of the tick (line 945)
RunningIds(ts) == {i \in 1..Len(ts) : ts[i].status = RUNNING}
PendingIds(ts) == {i \in 1..Len(ts) : ts[i].status = PENDING}

\* QueueBusy looking at the running tasks only
QueueBusyRunningOnly(ts) == RunningIds(ts) # {}

QueueBusy(ts) == RunningIds(ts) # {} \/ PendingIds(ts) # {}

\* LockFree of a lock that excludes nobody
LockFreeAlways(h) == TRUE

\* "async with self._lock": free when no admission is inside
LockFree(h) == h = {}

-----------------------------------------------------------------------------
(* Inputs of the model *)

Triggers == {"manual", "scheduled"}
ReqLists == {<<>>, <<"a">>, <<"b", "a">>}    \* requested lists of Spec
RunLists == {<<"a", "b", "c">>, <<"c">>}      \* requested lists of SpecRun
Durations == {30000}                         \* executor latency, ms
ErrorTexts == {"dns error"}                  \* executor error messages

\* _classify_refresh_failure on the messages above
ClassifyRefreshFailure(err) ==
    CASE err = "otp timeout" -> "captcha_or_code"
      [] err = "dns error" -> "network"
      [] OTHER -> "other"

Account(id, expires_at) ==
    [id |-> id, disabled |-> FALSE, eligible |-> TRUE, expires_at |-> expires_at]

InitAccounts == <<Account("a", T0 + 1800), Account("b", T0 + 600)>>

InitConfig ==
    [rotate_every |-> 1, secret |-> TRUE, max_batch |-> 20, window |-> 3600,
     enabled |-> TRUE, accounts_config |-> FALSE]

\* __init__: _is_polling = False, and start_polling has not been called
InitPolling == [is_polling |-> FALSE, loops |-> <<>>]

\* The coordinator's counters (lines 77-78), the rotator's group (all,
\* group_now), the coordinator's position in an attempt (step, cur_index)
\* and the calls it made to the rotator in its latest attempt.
InitMihomo(all) ==
    [batches |-> 0, warned |-> FALSE, all |-> all, group_now |-> all[1],
     step |-> 0, cur_index |-> 0, calls |-> <<>>]

\* one call to the rotator: get_proxy_group, test_delay_ms or select_proxy
Call(op, node) == [op |-> op, node |-> node]

Init ==
    /\ tasks = <<>>
    /\ queue = <<>>
    /\ current = None
    /\ holders = {}
    /\ accounts = InitAccounts
    /\ store = [i \in IDS |-> AbsentState]
    /\ now = T0
    /\ mihomo = InitMihomo(<<"n1">>)
    /\ cfg = InitConfig
    /\ polling = InitPolling

-----------------------------------------------------------------------------
(* Admission: start_login, check_and_refresh, _scheduled_tick *)

\* start_login(account_ids, trigger): the lock is taken, _start_login_locked
\* runs to its end and the lock is released.
Submit(ids, trigger, cap) ==
    /\ LockFree(holders)
    /\ LET r == StartLoginLocked(tasks, queue, ids, trigger)
       IN /\ r.created => Len(tasks) < cap
          /\ tasks' = r.tasks
          /\ queue' = r.queue
    /\ UNCHANGED <<current, holders, accounts, store, now, mihomo, cfg, polling>>

\* check_and_refresh that does nothing while a task is PENDING or RUNNING
CheckAndRefreshSkipIfBusy(ts, q, accts, now_ts, c, trigger) ==
    LET expiring == GetExpiringAccounts(accts, now_ts, c.window)
    IN IF c.accounts_config \/ expiring = <<>> \/ QueueBusy(ts)
       THEN [tasks |-> ts, queue |-> q, ret |-> None, error |-> FALSE, created |-> FALSE]
       ELSE StartLoginLocked(ts, q, expiring, trigger)

\* check_and_refresh (lines 754-780): nothing is done when the environment
\* variable ACCOUNTS_CONFIG is set (lines 768-770) or no identity is about
\* to expire (lines 771-774); otherwise start_login(expiring, trigger).
CheckAndRefresh(ts, q, accts, now_ts, c, trigger) ==
    LET expiring == GetExpiringAccounts(accts, now_ts, c.window)
    IN IF c.accounts_config \/ expiring = <<>>
       THEN [tasks |-> ts, queue |-> q, ret |-> None, error |-> FALSE, created |-> FALSE]
       ELSE StartLoginLocked(ts, q, expiring, trigger)

\* Simple mode of _scheduled_tick: check_and_refresh("scheduled")
SimpleTick(cap) ==
    /\ LockFree(holders)
    /\ LET r == CheckAndRefresh(tasks, queue, accounts, now, cfg, "scheduled")
       IN /\ r.created => Len(tasks) < cap
          /\ tasks' = r.tasks
          /\ queue' = r.queue
    /\ UNCHANGED <<current, holders, accounts, store, now, mihomo, cfg, polling>>

\* scheduled_refresh_max_batch_size: int(x or 20)
MaxBatch(c) == IF c.max_batch = 0 THEN 20 ELSE c.max_batch

\* Advanced mode, lines 943-968: the lock is taken and the queue status
\* read; a busy queue or an empty candidate list ends the tick, otherwise
\* the tick goes on, inside the lock, with its selected ids.  The critical
\* section is taken in two steps with the lock held in between (the
\* enqueue of line 165 is awaited), so that what excludes the other
\* admissions is the lock and not the size of the step.
TickCheck ==
    /\ LockFree(holders)
    /\ LET built == BuildAdvancedScheduledCandidates(accounts, store, now, cfg.window)
       IN IF QueueBusy(tasks) \/ built.candidates = <<>>
          THEN holders' = holders
          ELSE holders' = holders \cup
                 {[kind |-> "tick", ids |-> SelectedIds(built.candidates, MaxBatch(cfg))]}
    /\ UNCHANGED <<tasks, queue, current, accounts, store, now, mihomo, cfg, polling>>

\* Line 992: _start_login_locked(selected_ids, "scheduled"), then the lock
\* is released.
TickEnqueue(cap) ==
    \E h \in holders :
        /\ h.kind = "tick"
        /\ LET r == StartLoginLocked(tasks, queue, h.ids, "scheduled")
           IN /\ r.created => Len(tasks) < cap
              /\ tasks' = r.tasks
              /\ queue' = r.queue
        /\ holders' = holders \ {h}
        /\ UNCHANGED <<current, accounts, store, now, mihomo, cfg, polling>>

\* request_cancel(task_id): the flag is set on a task that has not ended
\* and the task's cancel hooks are called.  The hook of the identity in
\* flight (line 654) is GeminiAutomation.stop, which quits the browser when
\* there is one (page_open) and does nothing before _create_page has
\* returned (gemini_automation.py 85-92, 108-111).
RequestCancel(t, page_open) ==
    /\ t \in 1..Len(tasks)
    /\ Active(tasks[t])
    /\ ~tasks[t].cancel_requested
    /\ tasks' = [tasks EXCEPT ![t].cancel_requested = TRUE,
                              ![t].stopped = (tasks[t].pc = "login" /\ page_open)]
    /\ UNCHANGED <<queue, current, holders, accounts, store, now, mihomo, cfg, polling>>

-----------------------------------------------------------------------------
(* Egress rotation coordinator: _rotate_mihomo_proxy_best_effort *)

\* RotateEntry without the guard on the trigger
RotateEntryAnyTrigger(task, mh, c) ==
    IF task.status = CANCELLED THEN [hook |-> "cancelled", mihomo |-> mh]
    ELSE IF Max(c.rotate_every, 0) = 0 THEN [hook |-> "disabled", mihomo |-> mh]
    ELSE IF ~c.secret THEN [hook |-> "no_secret", mihomo |-> [mh EXCEPT !.warned = TRUE]]
    ELSE IF mh.batches + 1 < Max(c.rotate_every, 0)
         THEN [hook |-> "below_threshold", mihomo |-> [mh EXCEPT !.batches = @ + 1]]
         ELSE [hook |-> "attempt",
               mihomo |-> [mh EXCEPT !.batches = @ + 1, !.calls = <<>>]]

\* RotateEntry that resets the counter when it reaches the threshold
RotateEntryResetAtThreshold(task, mh, c) ==
    IF task.trigger # "scheduled" THEN [hook |-> "manual", mihomo |-> mh]
    ELSE IF task.status = CANCELLED THEN [hook |-> "cancelled", mihomo |-> mh]
    ELSE IF Max(c.rotate_every, 0) = 0 THEN [hook |-> "disabled", mihomo |-> mh]
    ELSE IF ~c.secret THEN [hook |-> "no_secret", mihomo |-> [mh EXCEPT !.warned = TRUE]]
    ELSE IF mh.batches + 1 < Max(c.rotate_every, 0)
         THEN [hook |-> "below_threshold", mihomo |-> [mh EXCEPT !.batches = @ + 1]]
         ELSE [hook |-> "attempt", mihomo |-> [mh EXCEPT !.batches = 0, !.calls = <<>>]]

\* Lines 279-313, which run without awaiting: what the hook decides for the
\* task and the counters it leaves.  hook = "attempt" goes on to the rotator.
RotateEntry(task, mh, c) ==
    IF task.trigger # "scheduled" THEN [hook |-> "manual", mihomo |-> mh]
    ELSE IF task.status = CANCELLED THEN [hook |-> "cancelled", mihomo |-> mh]
    ELSE IF Max(c.rotate_every, 0) = 0 THEN [hook |-> "disabled", mihomo |-> mh]
    ELSE IF ~c.secret THEN [hook |-> "no_secret", mihomo |-> [mh EXCEPT !.warned = TRUE]]
    ELSE IF mh.batches + 1 < Max(c.rotate_every, 0)
         THEN [hook |-> "below_threshold", mihomo |-> [mh EXCEPT !.batches = @ + 1]]
         ELSE [hook |-> "attempt",
               mihomo |-> [mh EXCEPT !.batches = @ + 1, !.calls = <<>>]]

\* snapshot.all.index(snapshot.now), -1 when absent (lines 345-348);
\* positions count from 0 as in the code
CurrentIndex(all, cur) ==
    IF \E i \in 1..Len(all) : all[i] = cur
    THEN (CHOOSE i \in 1..Len(all) : all[i] = cur /\ \A j \in 1..(i - 1) : all[j] # cur) - 1
    ELSE -1

\* ProbeCandidate that starts at the current selection itself
ProbeCandidateFromCurrent(all, cur_index, step) ==
    all[((cur_index + step - 1) % Len(all)) + 1]

\* snapshot.all[(current_index + step) % len(snapshot.all)] (line 359)
ProbeCandidate(all, cur_index, step) == all[((cur_index + step) % Len(all)) + 1]

-----------------------------------------------------------------------------
(* Task execution: the worker, _run_login_async and _run_task_directly *)

\* FinalStatus with the status of a batch without failures left as it was
FinalStatusStale(task) ==
    IF task.cancel_requested THEN CANCELLED
    ELSE IF task.fail_count = 0 THEN task.status ELSE FAILED

\* FinalStatus that does not look at the cancel request
FinalStatusNoCancel(task) == IF task.fail_count = 0 THEN SUCCESS ELSE FAILED

\* FinalStatus that calls a batch with any success a success
FinalStatusLenient(task) ==
    IF task.cancel_requested THEN CANCELLED
    ELSE IF task.success_count > 0 \/ task.fail_count = 0 THEN SUCCESS ELSE FAILED

\* Final status of a task whose list is exhausted (lines 537-540)
FinalStatus(task) ==
    IF task.cancel_requested THEN CANCELLED
    ELSE IF task.fail_count = 0 THEN SUCCESS ELSE FAILED

\* Finish in which an error of the rotator escapes the hook: the lines after
\* the hook are not reached and the task is failed
FinishErrorEscapes(t, hook) ==
    IF hook = "error"
    THEN /\ tasks' = [tasks EXCEPT ![t].status = FAILED, ![t].hook = hook, ![t].pc = "done"]
         /\ current' = current
    ELSE /\ tasks' = [tasks EXCEPT ![t].finished = TRUE, ![t].hook = hook, ![t].pc = "done"]
         /\ current' = None

\* Lines 546-548: finished_at is set and the orchestrator released.  The
\* "finally" of _run_task_directly that follows finds another owner (or
\* none) and changes nothing, so the coroutine is done here.
Finish(t, hook) ==
    /\ tasks' = [tasks EXCEPT ![t].finished = TRUE, ![t].hook = hook, ![t].pc = "done"]
    /\ current' = None

\* The worker takes the oldest queued task once the orchestrator is free.
StartTask ==
    /\ LockFree(holders)
    /\ current = None
    /\ queue # <<>>
    /\ LET t == Head(queue)
       IN /\ tasks' = [tasks EXCEPT ![t].status = RUNNING, ![t].pc = "head"]
          /\ current' = t
    /\ queue' = Tail(queue)
    /\ UNCHANGED <<holders, accounts, store, now, mihomo, cfg, polling>>

\* The head of "for idx, account_id in enumerate(task.account_ids, 1)":
\* the iterator reads the list as it is now, so ids merged meanwhile are
\* reached.  Position = progress, as every completed iteration adds one.
LoopHead(t) ==
    /\ t \in 1..Len(tasks)
    /\ tasks[t].pc = "head"
    /\ LET task == tasks[t]
       IN IF task.progress < Len(task.account_ids)
          THEN IF task.cancel_requested
               THEN \* lines 467-471
                    /\ tasks' = [tasks EXCEPT ![t].status = CANCELLED,
                                              ![t].finished = TRUE, ![t].pc = "cleanup"]
                    /\ UNCHANGED <<current, mihomo>>
               ELSE \* lines 473-479: the executor call starts
                    /\ tasks' = [tasks EXCEPT ![t].pc = "exec", ![t].stopped = FALSE]
                    /\ UNCHANGED <<current, mihomo>>
          ELSE \* lines 536-548
               LET ended == [task EXCEPT !.status = FinalStatus(task)]
                   entry == RotateEntry(ended, mihomo, cfg)
               IN IF entry.hook = "attempt"
                  THEN /\ tasks' = [tasks EXCEPT ![t] =
                                       [ended EXCEPT !.hook = "attempt", !.pc = "snapshot"]]
                       /\ mihomo' = entry.mihomo
                       /\ UNCHANGED current
                  ELSE /\ tasks' = [tasks EXCEPT ![t] =
                                       [ended EXCEPT !.finished = TRUE, !.hook = entry.hook,
                                                     !.pc = "done"]]
                       /\ mihomo' = entry.mihomo
                       /\ current' = None
    /\ UNCHANGED <<queue, holders, accounts, store, now, cfg, polling>>

\* The result dict of one identity (lines 486-492, 508-510)
Result(account_id, success, err, dur_ms) ==
    [email |-> account_id, success |-> success, error |-> err, duration_ms |-> dur_ms,
     failure_category |-> IF success THEN "" ELSE ClassifyRefreshFailure(err),
     next_eligible_at |-> 0]

\* RecordResult in which a failure ends the batch: the position jumps to
\* the end of the list
RecordResultAbort(task, res) ==
    [task EXCEPT !.progress = IF res.success THEN @ + 1 ELSE Len(task.account_ids),
                 !.results = Append(@, res),
                 !.success_count = IF res.success THEN @ + 1 ELSE @,
                 !.fail_count = IF res.success THEN @ ELSE @ + 1]

\* Lines 489-500: the result is appended and counted
RecordResult(task, res) ==
    [task EXCEPT !.progress = @ + 1,
                 !.results = Append(@, res),
                 !.success_count = IF res.success THEN @ + 1 ELSE @,
                 !.fail_count = IF res.success THEN @ ELSE @ + 1]

\* _refresh_one's success path (lines 669-687): the identity gets its new
\* credential and expiry
ApplyAccountsUpdate(accts, account_id, now_ts) ==
    [i \in 1..Len(accts) |->
        IF accts[i].id = account_id
        THEN [accts[i] EXCEPT !.expires_at = now_ts + LifetimeSeconds]
        ELSE accts[i]]

\* _refresh_one can succeed only for an identity that exists, is enabled
\* and has its mail credentials (lines 553-598).
CanSucceed(accts, account_id) ==
    \E i \in 1..Len(accts) :
        accts[i].id = account_id /\ ~accts[i].disabled /\ accts[i].eligible

\* _refresh_one has loaded the identity and made its mail client and its
\* automation, and registers the cancel hook (lines 553-654); the external
\* login (line 657) comes after.
RegisterHook(t) ==
    /\ t \in 1..Len(tasks)
    /\ tasks[t].pc = "exec"
    /\ CanSucceed(accounts, tasks[t].account_ids[tasks[t].progress + 1])
    /\ tasks' = [tasks EXCEPT ![t].pc = "login"]
    /\ UNCHANGED <<queue, current, holders, accounts, store, now, mihomo, cfg, polling>>

\* The executor call returns (lines 479-505).  kind: "ok", "fail" (the
\* executor returned a failure), "raise" (it raised: duration 0), or
\* "cancelled" (TaskCancelledError, lines 481-485).  Success needs the
\* external login, with a browser that was not quit.
ExecReturn(t, kind, err, dur_ms) ==
    /\ t \in 1..Len(tasks)
    /\ tasks[t].pc \in {"exec", "login"}
    /\ kind = "cancelled" => tasks[t].cancel_requested
    /\ kind = "ok" => tasks[t].pc = "login" /\ ~tasks[t].stopped
    /\ LET task == tasks[t]
           account_id == task.account_ids[task.progress + 1]
       IN CASE kind = "cancelled" ->
                 /\ tasks' = [tasks EXCEPT ![t].status = CANCELLED,
                                           ![t].finished = TRUE, ![t].stopped = FALSE,
                                           ![t].pc = "cleanup"]
                 /\ UNCHANGED accounts
            [] kind = "ok" ->
                 /\ tasks' = [tasks EXCEPT ![t] =
                        [RecordResult(task, Result(account_id, TRUE, "", dur_ms))
                            EXCEPT !.pc = "update", !.stopped = FALSE]]
                 /\ accounts' = ApplyAccountsUpdate(accounts, account_id, now)
            [] kind = "fail" ->
                 /\ tasks' = [tasks EXCEPT ![t] =
                        [RecordResult(task, Result(account_id, FALSE, err, dur_ms))
                            EXCEPT !.pc = "update", !.stopped = FALSE]]
                 /\ UNCHANGED accounts
            [] kind = "raise" ->
                 /\ tasks' = [tasks EXCEPT ![t] =
                        [RecordResult(task, Result(account_id, FALSE, err, 0))
                            EXCEPT !.pc = "update", !.stopped = FALSE]]
                 /\ UNCHANGED accounts
    /\ UNCHANGED <<queue, current, holders, store, now, mihomo, cfg, polling>>

\* UpdateState in which an error of the store escapes the update and ends
\* the coroutine
UpdateStateErrorEscapes(t, load_ok, write_ok) ==
    /\ t \in 1..Len(tasks)
    /\ tasks[t].pc = "update"
    /\ LET task == tasks[t]
           res == task.results[Len(task.results)]
           new_state == NewRefreshState(store[res.email], res.success, res.duration_ms,
                                        res.error, now)
       IN IF load_ok /\ write_ok
          THEN /\ store' = [store EXCEPT ![res.email] = new_state]
               /\ tasks' = [tasks EXCEPT
                     ![t].pc = "head",
                     ![t].results[Len(task.results)].next_eligible_at =
                         IF ~res.success THEN new_state.next_eligible_at ELSE 0]
          ELSE /\ store' = store
               /\ tasks' = [tasks EXCEPT ![t].status = FAILED, ![t].pc = "cleanup"]
    /\ UNCHANGED <<queue, current, holders, accounts, now, mihomo, cfg, polling>>

\* Lines 511-519: _update_scheduled_refresh_state_sync runs in its thread.
\* load_ok / write_ok: whether the store's load and write succeed.
UpdateState(t, load_ok, write_ok) ==
    /\ t \in 1..Len(tasks)
    /\ tasks[t].pc = "update"
    /\ LET task == tasks[t]
           res == task.results[Len(task.results)]
           existing == IF load_ok THEN store[res.email] ELSE AbsentState
           new_state == NewRefreshState(existing, res.success, res.duration_ms,
                                        res.error, now)
       IN /\ store' = IF write_ok THEN [store EXCEPT ![res.email] = new_state] ELSE store
          /\ tasks' = [tasks EXCEPT
                ![t].pc = "head",
                ![t].results[Len(task.results)].next_eligible_at =
                    IF ~res.success THEN new_state.next_eligible_at ELSE 0]
    /\ UNCHANGED <<queue, current, holders, accounts, now, mihomo, cfg, polling>>

\* get_proxy_group returns (lines 339-348) or raises (lines 376-378); an
\* empty candidate list ends the attempt (lines 340-342).
Snapshot(t, ok) ==
    /\ t \in 1..Len(tasks)
    /\ tasks[t].pc = "snapshot"
    /\ LET called == [mihomo EXCEPT !.calls = Append(@, Call("get", ""))]
       IN IF ~ok
          THEN /\ Finish(t, "error")
               /\ mihomo' = called
          ELSE IF mihomo.all = <<>>
               THEN /\ Finish(t, "empty")
                    /\ mihomo' = called
               ELSE /\ tasks' = [tasks EXCEPT ![t].pc = "probe"]
                    /\ mihomo' = [called EXCEPT !.step = 1,
                                      !.cur_index = CurrentIndex(mihomo.all, mihomo.group_now)]
                    /\ UNCHANGED current
    /\ UNCHANGED <<queue, holders, accounts, store, now, cfg, polling>>

\* test_delay_ms returns for the candidate of this step (lines 358-375);
\* a reachable candidate is selected, and select_proxy may raise.
Probe(t, reachable, select_ok) ==
    /\ t \in 1..Len(tasks)
    /\ tasks[t].pc = "probe"
    /\ LET candidate == ProbeCandidate(mihomo.all, mihomo.cur_index, mihomo.step)
           tested == [mihomo EXCEPT !.calls = Append(@, Call("test", candidate))]
           selected == [tested EXCEPT !.calls = Append(@, Call("select", candidate))]
       IN IF reachable
          THEN IF select_ok
               THEN /\ mihomo' = [selected EXCEPT !.group_now = candidate, !.batches = 0,
                                                  !.step = 0]
                    /\ Finish(t, "switched")
               ELSE /\ mihomo' = [selected EXCEPT !.step = 0]
                    /\ Finish(t, "error")
          ELSE IF mihomo.step < Len(mihomo.all)
               THEN /\ mihomo' = [tested EXCEPT !.step = @ + 1]
                    /\ UNCHANGED <<tasks, current>>
               ELSE /\ mihomo' = [tested EXCEPT !.step = 0]
                    /\ Finish(t, "none_reachable")
    /\ UNCHANGED <<queue, holders, accounts, store, now, cfg, polling>>

\* ReleaseOwner of a "finally" that leaves the owner as it is
KeepOwner(cur, t) == cur

\* current_task_id after the "finally" of _run_task_directly (lines 174-176),
\* reached with the task still the owner when it was cancelled
ReleaseOwner(cur, t) == IF cur = t THEN None ELSE cur

Cleanup(t) ==
    /\ t \in 1..Len(tasks)
    /\ tasks[t].pc = "cleanup"
    /\ LockFree(holders)
    /\ tasks' = [tasks EXCEPT ![t].pc = "done"]
    /\ current' = ReleaseOwner(current, t)
    /\ UNCHANGED <<queue, holders, accounts, store, now, mihomo, cfg, polling>>

-----------------------------------------------------------------------------
(* Admission: submits, ticks of both modes, cancellation and the runs of  *)
(* the admitted tasks.  The rotator answers here; its failures are part   *)
(* of NextRun.                                                            *)

Next ==
    \/ \E ids \in ReqLists : Submit(ids, "manual", MaxTasks)
    \/ SimpleTick(MaxTasks)
    \/ TickCheck
    \/ TickEnqueue(MaxTasks)
    \/ \E t \in 1..MaxTasks : RequestCancel(t, TRUE)
    \/ StartTask
    \/ \E t \in 1..MaxTasks : LoopHead(t)
    \/ \E t \in 1..MaxTasks : RegisterHook(t)
    \/ \E t \in 1..MaxTasks, kind \in {"ok", "fail", "cancelled"},
          err \in ErrorTexts, dur \in Durations : ExecReturn(t, kind, err, dur)
    \/ \E t \in 1..MaxTasks : UpdateState(t, TRUE, TRUE)
    \/ \E t \in 1..MaxTasks : Snapshot(t, TRUE)
    \/ \E t \in 1..MaxTasks : Probe(t, TRUE, TRUE)
    \/ \E t \in 1..MaxTasks : Cleanup(t)

Spec == Init /\ [][Next]_vars

-----------------------------------------------------------------------------
(* Every scheduled tick in advanced mode: manual submits, advanced ticks,  *)
(* execution and cancellation, without check_and_refresh                   *)

NextAdvanced ==
    \/ \E ids \in ReqLists : Submit(ids, "manual", MaxAdvTasks)
    \/ TickCheck
    \/ TickEnqueue(MaxAdvTasks)
    \/ \E t \in 1..MaxAdvTasks : RequestCancel(t, TRUE)
    \/ StartTask
    \/ \E t \in 1..MaxAdvTasks : LoopHead(t)
    \/ \E t \in 1..MaxAdvTasks : RegisterHook(t)
    \/ \E t \in 1..MaxAdvTasks, kind \in {"ok", "fail", "cancelled"},
          err \in ErrorTexts, dur \in Durations : ExecReturn(t, kind, err, dur)
    \/ \E t \in 1..MaxAdvTasks : UpdateState(t, TRUE, TRUE)
    \/ \E t \in 1..MaxAdvTasks, ok \in BOOLEAN : Snapshot(t, ok)
    \/ \E t \in 1..MaxAdvTasks, reachable \in BOOLEAN, select_ok \in BOOLEAN :
          Probe(t, reachable, select_ok)
    \/ \E t \in 1..MaxAdvTasks : Cleanup(t)

SpecAdvanced == Init /\ [][NextAdvanced]_vars

-----------------------------------------------------------------------------
(* The run of single batches, with every outcome of the executor and of    *)
(* the rotator *)

InitRun ==
    /\ tasks = <<>>
    /\ queue = <<>>
    /\ current = None
    /\ holders = {}
    /\ accounts = InitAccounts \o <<Account("c", T0 + 900)>>
    /\ store = [i \in IDS |-> AbsentState]
    /\ now = T0
    /\ mihomo = InitMihomo(<<"n1", "n2">>)
    /\ cfg = InitConfig
    /\ polling = InitPolling

NextRun ==
    \/ \E ids \in RunLists, trigger \in Triggers : Submit(ids, trigger, MaxRunTasks)
    \/ \E t \in 1..MaxRunTasks, page_open \in BOOLEAN : RequestCancel(t, page_open)
    \/ StartTask
    \/ \E t \in 1..MaxRunTasks : LoopHead(t)
    \/ \E t \in 1..MaxRunTasks : RegisterHook(t)
    \/ \E t \in 1..MaxRunTasks, kind \in {"ok", "fail", "raise", "cancelled"},
          err \in ErrorTexts, dur \in Durations : ExecReturn(t, kind, err, dur)
    \/ \E t \in 1..MaxRunTasks : UpdateState(t, TRUE, TRUE)
    \/ \E t \in 1..MaxRunTasks, ok \in BOOLEAN : Snapshot(t, ok)
    \/ \E t \in 1..MaxRunTasks, reachable \in BOOLEAN, select_ok \in BOOLEAN :
          Probe(t, reachable, select_ok)
    \/ \E t \in 1..MaxRunTasks : Cleanup(t)

SpecRun == InitRun /\ [][NextRun]_vars

-----------------------------------------------------------------------------
(* Batches of one identity, one after the other, with the coordinator set  *)
(* to rotate every batch or every second batch, a group of three nodes     *)
(* and a current selection that is in the group or not.                    *)

RotLists == {<<"a">>}
RotNodes == <<"n1", "n2", "n3">>

InitRot ==
    /\ tasks = <<>>
    /\ queue = <<>>
    /\ current = None
    /\ holders = {}
    /\ accounts = InitAccounts
    /\ store = [i \in IDS |-> AbsentState]
    /\ now = T0
    /\ \E cur \in {"n2", "gone"} : mihomo = [InitMihomo(RotNodes) EXCEPT !.group_now = cur]
    /\ \E n \in {1, 2} : cfg = [InitConfig EXCEPT !.rotate_every = n]
    /\ polling = InitPolling

NextRot ==
    \/ \E ids \in RotLists, trigger \in Triggers : Submit(ids, trigger, MaxRotTasks)
    \/ \E t \in 1..MaxRotTasks : RequestCancel(t, TRUE)
    \/ StartTask
    \/ \E t \in 1..MaxRotTasks : LoopHead(t)
    \/ \E t \in 1..MaxRotTasks : RegisterHook(t)
    \/ \E t \in 1..MaxRotTasks, kind \in {"ok", "fail", "cancelled"},
          err \in ErrorTexts, dur \in Durations : ExecReturn(t, kind, err, dur)
    \/ \E t \in 1..MaxRotTasks : UpdateState(t, TRUE, TRUE)
    \/ \E t \in 1..MaxRotTasks, ok \in BOOLEAN : Snapshot(t, ok)
    \/ \E t \in 1..MaxRotTasks, reachable \in BOOLEAN, select_ok \in BOOLEAN :
          Probe(t, reachable, select_ok)
    \/ \E t \in 1..MaxRotTasks : Cleanup(t)

SpecRot == InitRot /\ [][NextRot]_vars

-----------------------------------------------------------------------------
(* The refresh state of two identities under failure after failure: the    *)
(* backoff calculator applied to every streak up to MaxStreak.             *)

\* _update_scheduled_refresh_state_sync(account_id, success, duration, error)
\* as one call (lines 380-458), with the store answering
UpdateScheduledRefreshStateSync(id, success, dur_ms, err) ==
    /\ store[id].consecutive_failures < MaxStreak
    /\ store' = [store EXCEPT ![id] = NewRefreshState(store[id], success, dur_ms, err, now)]
    /\ UNCHANGED <<tasks, queue, current, holders, accounts, now, mihomo, cfg, polling>>

NextBackoff ==
    \E id \in {"a", "b"}, err \in ErrorTexts :
        UpdateScheduledRefreshStateSync(id, FALSE, 0, err)

SpecBackoff == Init /\ [][NextBackoff]_vars

-----------------------------------------------------------------------------
(* The advanced tick over stored refresh states: identities never          *)
(* attempted and identities attempted just now, with every service-time    *)
(* estimate, all inside the refresh window.                                *)

\* scheduled_refresh_state as _get_account_scheduled_refresh_state returns
\* it and lines 891-902 read it, each field with its own default
StoredState(last_attempt_at, avg_ms, next_eligible_at) ==
    [present |-> TRUE, last_attempt_at |-> last_attempt_at, last_success_at |-> 0,
     avg_ms |-> avg_ms, consecutive_failures |-> 0,
     next_eligible_at |-> next_eligible_at, last_error |-> ""]

HrrnNows == {1, T0}
\* avg_refresh_duration_seconds in ms: missing, below the floor of 1 s, the
\* floor, and two ordinary values
ServiceEstimates == {0, 500, 1000, 30000, 60000}

InitHrrn ==
    /\ tasks = <<>>
    /\ queue = <<>>
    /\ current = None
    /\ holders = {}
    /\ now \in HrrnNows
    /\ accounts = <<Account("a", now + 600), Account("b", now + 600), Account("c", now + 600)>>
    /\ store \in [IDS -> {StoredState(la, avg, 0) : la \in {0, now}, avg \in ServiceEstimates}]
    /\ mihomo = InitMihomo(<<"n1">>)
    /\ cfg = InitConfig
    /\ polling = InitPolling

\* one advanced tick of _scheduled_tick
NextTick ==
    \/ TickCheck
    \/ TickEnqueue(MaxRunTasks)

SpecHrrn == InitHrrn /\ [][NextTick]_vars

-----------------------------------------------------------------------------
(* The advanced tick over identity populations: identities inside the      *)
(* window, at its edge, beyond it, already expired, disabled, or without   *)
(* mail credentials, each with a backoff that is absent, over, or running. *)

\* one account of the population, by kind
AccountOfKind(id, kind, now_ts, window) ==
    CASE kind = "soon" -> Account(id, now_ts + 600)
      [] kind = "edge" -> Account(id, now_ts + window)
      [] kind = "beyond" -> Account(id, now_ts + window + 1)
      [] kind = "expired" -> Account(id, now_ts - 10)
      [] kind = "disabled" -> [Account(id, now_ts + 600) EXCEPT !.disabled = TRUE]
      [] OTHER -> [Account(id, now_ts + 600) EXCEPT !.eligible = FALSE]

AccountKinds == {"soon", "edge", "beyond", "expired", "disabled", "no_credentials"}

\* next_eligible_at of a stored state: none, reached now, 15 minutes ahead
BackoffEnds(now_ts) == {0, now_ts, now_ts + SCHEDULED_REFRESH_BACKOFF_BASE_SECONDS}

\* refresh_window_hours, in seconds
RefreshWindows == {1800, 3600}

InitSelect ==
    /\ tasks = <<>>
    /\ queue = <<>>
    /\ current = None
    /\ holders = {}
    /\ now = T0
    /\ cfg \in {[InitConfig EXCEPT !.window = w] : w \in RefreshWindows}
    /\ polling = InitPolling
    /\ \E ka, kb, kc \in AccountKinds :
          accounts = <<AccountOfKind("a", ka, now, cfg.window),
                       AccountOfKind("b", kb, now, cfg.window),
                       AccountOfKind("c", kc, now, cfg.window)>>
    /\ store \in [IDS -> {StoredState(now - 60, 30000, nea) : nea \in BackoffEnds(now)}]
    /\ mihomo = InitMihomo(<<"n1">>)

SpecSelect == InitSelect /\ [][NextTick]_vars

-----------------------------------------------------------------------------
(* The advanced tick over populations of 1 to MaxAccounts identities, all  *)
(* candidates, under every kind of configured maximum batch size.  The     *)
(* i-th identity in load order was last attempted i seconds ago, so that   *)
(* the score order is the reverse of the load order.                       *)

AccountId(i) == "u" \o ToString(i)

CandidateCounts == {1, 2, 3, 5, 6, 7, 20, 21, 50, MaxAccounts}

\* scheduled_refresh_max_batch_size as configured
BatchLimits == {0, 1, 4, 5, 6, 20, 21}

InitBatch ==
    /\ tasks = <<>>
    /\ queue = <<>>
    /\ current = None
    /\ holders = {}
    /\ now = T0
    /\ cfg \in {[InitConfig EXCEPT !.max_batch = m] : m \in BatchLimits}
    /\ polling = InitPolling
    /\ \E c \in CandidateCounts :
          /\ accounts = [i \in 1..c |-> Account(AccountId(i), now + 600)]
          /\ store = [id \in {AccountId(i) : i \in 1..c} |->
                        StoredState(now - (CHOOSE i \in 1..c : AccountId(i) = id), 30000, 0)]
    /\ mihomo = InitMihomo(<<"n1">>)

SpecBatch == InitBatch /\ [][NextTick]_vars

-----------------------------------------------------------------------------
(* Batches over identities that have a refresh history, with a store whose *)
(* load or write may fail.  Rotation is disabled.                          *)

\* Refresh states the core has written before: after a success two hours
\* ago, after a failure that followed it, after a second failure
PriorSuccess == NewRefreshState(AbsentState, TRUE, 30000, "", T0 - 7200)
PriorFailure == NewRefreshState(PriorSuccess, FALSE, 0, "dns error", T0 - 3600)
PriorStates ==
    {AbsentState, PriorSuccess, PriorFailure,
     NewRefreshState(PriorFailure, FALSE, 30000, "dns error", T0 - 1800)}

StoreLists == {<<"a", "b">>}

InitStore ==
    /\ tasks = <<>>
    /\ queue = <<>>
    /\ current = None
    /\ holders = {}
    /\ accounts = InitAccounts
    /\ \E sa \in PriorStates :
          store = [i \in IDS |-> IF i = "a" THEN sa ELSE AbsentState]
    /\ now = T0
    /\ mihomo = InitMihomo(<<"n1">>)
    /\ cfg = [InitConfig EXCEPT !.rotate_every = 0]
    /\ polling = InitPolling

NextStore ==
    \/ \E ids \in StoreLists, trigger \in Triggers : Submit(ids, trigger, MaxStoreTasks)
    \/ StartTask
    \/ \E t \in 1..MaxStoreTasks : LoopHead(t)
    \/ \E t \in 1..MaxStoreTasks : RegisterHook(t)
    \/ \E t \in 1..MaxStoreTasks, kind \in {"ok", "fail", "raise"},
          err \in ErrorTexts, dur \in Durations : ExecReturn(t, kind, err, dur)
    \/ \E t \in 1..MaxStoreTasks, load_ok \in BOOLEAN, write_ok \in BOOLEAN :
          UpdateState(t, load_ok, write_ok)

SpecStore == InitStore /\ [][NextStore]_vars

-----------------------------------------------------------------------------
(* Any sequence of success and failure updates of one identity, from an    *)
(* absent state, with durations of 0 (the executor raised) and 30 s.       *)

UpdateDurations == {0, 30000}

NextUpdates ==
    \E success \in BOOLEAN, dur \in UpdateDurations, err \in ErrorTexts :
        UpdateScheduledRefreshStateSync("a", success, dur, IF success THEN "" ELSE err)

SpecUpdates == Init /\ [][NextUpdates]_vars

-----------------------------------------------------------------------------
(* An identity that failed ten minutes ago, and is in backoff for five     *)
(* minutes more, fails again; time passes in steps of ten minutes, and     *)
(* advanced ticks come at any time.  The identity is within the window,    *)
(* beyond it at first, or disabled.                                        *)

RecentFailure == NewRefreshState(PriorSuccess, FALSE, 0, "dns error", T0 - 600)

\* scheduled_refresh_interval_minutes = 10, in seconds
TickIntervalSeconds == 600

\* time.time() moves on by one tick interval
Elapse ==
    /\ now < T0 + MaxElapsed * TickIntervalSeconds
    /\ now' = now + TickIntervalSeconds
    /\ UNCHANGED <<tasks, queue, current, holders, accounts, store, mihomo, cfg, polling>>

InitReturn ==
    /\ tasks = <<>>
    /\ queue = <<>>
    /\ current = None
    /\ holders = {}
    /\ now = T0
    /\ cfg = InitConfig
    /\ polling = InitPolling
    /\ \E kind \in {"soon", "beyond", "disabled"} :
          accounts = <<AccountOfKind("a", kind, now, cfg.window), Account("b", now + 600)>>
    /\ store = [i \in IDS |-> IF i = "a" THEN RecentFailure ELSE AbsentState]
    /\ mihomo = InitMihomo(<<"n1">>)

NextReturn ==
    \/ \E err \in ErrorTexts : UpdateScheduledRefreshStateSync("a", FALSE, 0, err)
    \/ Elapse
    \/ TickCheck
    \/ TickEnqueue(MaxRunTasks)

SpecReturn == InitReturn /\ [][NextReturn]_vars

-----------------------------------------------------------------------------
(* Advanced ticks next to scheduled batches and their rotation, with the   *)
(* clock moving: c comes into the refresh window one tick interval after   *)
(* the start, so a tick that finds the first batch in its rotation has a   *)
(* candidate                                                               *)

InitBusy ==
    /\ tasks = <<>>
    /\ queue = <<>>
    /\ current = None
    /\ holders = {}
    /\ now = T0
    /\ cfg = InitConfig
    /\ polling = InitPolling
    /\ accounts = <<Account("a", now + 600),
                    Account("c", now + cfg.window + TickIntervalSeconds)>>
    /\ store = [i \in IDS |-> AbsentState]
    /\ mihomo = InitMihomo(<<"n1", "n2">>)

NextBusy ==
    \/ TickCheck
    \/ TickEnqueue(MaxBusyTasks)
    \/ Elapse
    \/ StartTask
    \/ \E t \in 1..MaxBusyTasks : LoopHead(t)
    \/ \E t \in 1..MaxBusyTasks : RegisterHook(t)
    \/ \E t \in 1..MaxBusyTasks, kind \in {"ok", "fail"},
          err \in ErrorTexts, dur \in Durations : ExecReturn(t, kind, err, dur)
    \/ \E t \in 1..MaxBusyTasks : UpdateState(t, TRUE, TRUE)
    \/ \E t \in 1..MaxBusyTasks : Snapshot(t, TRUE)
    \/ \E t \in 1..MaxBusyTasks, reachable \in BOOLEAN : Probe(t, reachable, TRUE)

SpecBusy == InitBusy /\ [][NextBusy]_vars

-----------------------------------------------------------------------------
(* Recurring advanced ticks over one identity more than a batch takes.     *)
(* The first identity has a recent attempt and a slow average, so that its *)
(* score is the lowest; the others were never attempted, fail or succeed   *)
(* fast,                                                                   *)
(* and those that fail come back from their backoff as the clock moves.    *)
(* A batch of fast calls is over in seconds, so the clock moves, by the    *)
(* scheduler's sleep, only between batches.                                *)
(* The loop ticks again after every sleep, the worker takes a queued task, *)
(* the event loop resumes the run coroutine and the executor call returns: *)
(* hence the weak fairness on the tick, on the start of a task and on the  *)
(* steps of the run coroutine, of which one at a time is enabled.          *)

FairDurations == {1000}

\* identities of SpecFair: one more than a batch takes
MaxFairAccounts == SCHEDULED_REFRESH_MIN_BATCH_SIZE + 1

InitFair ==
    /\ tasks = <<>>
    /\ queue = <<>>
    /\ current = None
    /\ holders = {}
    /\ now = T0 + 2 * TickIntervalSeconds
    /\ cfg = [InitConfig EXCEPT !.max_batch = 5, !.rotate_every = 0]
    /\ polling = InitPolling
    /\ accounts = [i \in 1..MaxFairAccounts |-> Account(AccountId(i), now + 600)]
    /\ store = [id \in {AccountId(i) : i \in 1..MaxFairAccounts} |->
                   IF id = AccountId(1) THEN StoredState(now - 60, 60000, 0)
                   ELSE AbsentState]
    /\ mihomo = InitMihomo(<<"n1">>)

NextFair ==
    \/ TickCheck
    \/ TickEnqueue(MaxFairTasks)
    \/ (~QueueBusy(tasks) /\ Elapse)
    \/ StartTask
    \/ \E t \in 1..MaxFairTasks : LoopHead(t)
    \/ \E t \in 1..MaxFairTasks : RegisterHook(t)
    \/ \E t \in 1..MaxFairTasks, kind \in {"ok", "fail"},
          err \in ErrorTexts, dur \in FairDurations : ExecReturn(t, kind, err, dur)
    \/ \E t \in 1..MaxFairTasks : UpdateState(t, TRUE, TRUE)

SpecFair ==
    /\ InitFair /\ [][NextFair]_vars
    /\ WF_vars(TickCheck \/ TickEnqueue(MaxFairTasks))
    /\ WF_vars(StartTask)
    /\ WF_vars(\E t \in 1..MaxFairTasks :
                  \/ LoopHead(t)
                  \/ RegisterHook(t)
                  \/ \E kind \in {"ok", "fail"}, err \in ErrorTexts, dur \in FairDurations :
                        ExecReturn(t, kind, err, dur)
                  \/ UpdateState(t, TRUE, TRUE))

-----------------------------------------------------------------------------
(* Manual batches and advanced ticks over identities with a refresh        *)
(* history, with failures whose texts fall into three categories.          *)

\* error texts classified captcha_or_code, network and other
ClassTexts == {"otp timeout", "dns error", "boom"}

InitClass ==
    /\ tasks = <<>>
    /\ queue = <<>>
    /\ current = None
    /\ holders = {}
    /\ accounts = InitAccounts
    /\ \E sa \in {AbsentState, PriorFailure} :
          store = [i \in IDS |-> IF i = "a" THEN sa ELSE AbsentState]
    /\ now = T0
    /\ mihomo = InitMihomo(<<"n1">>)
    /\ cfg = [InitConfig EXCEPT !.rotate_every = 0]
    /\ polling = InitPolling

NextClass ==
    \/ \E ids \in StoreLists : Submit(ids, "manual", MaxClassTasks)
    \/ TickCheck
    \/ TickEnqueue(MaxClassTasks)
    \/ StartTask
    \/ \E t \in 1..MaxClassTasks : LoopHead(t)
    \/ \E t \in 1..MaxClassTasks : RegisterHook(t)
    \/ \E t \in 1..MaxClassTasks, kind \in {"ok", "fail", "raise"},
          err \in ClassTexts, dur \in Durations : ExecReturn(t, kind, err, dur)
    \/ \E t \in 1..MaxClassTasks : UpdateState(t, TRUE, TRUE)

SpecClass == InitClass /\ [][NextClass]_vars

-----------------------------------------------------------------------------
(* Batches of two identities, manual and scheduled, cancelled at any time  *)
(* or not at all, with the coordinator rotating after every scheduled      *)
(* batch.  Every call returns (executor, state update, rotator) and the    *)
(* event loop resumes the coroutine and the worker, hence the weak         *)
(* fairness of the steps of a run; submits and cancel requests are the     *)
(* environment's and need not happen.                                      *)

LiveLists == {<<"a", "b">>}

InitLive ==
    /\ tasks = <<>>
    /\ queue = <<>>
    /\ current = None
    /\ holders = {}
    /\ accounts = InitAccounts
    /\ store = [i \in IDS |-> AbsentState]
    /\ now = T0
    /\ mihomo = InitMihomo(<<"n1">>)
    /\ cfg = InitConfig
    /\ polling = InitPolling

NextLive ==
    \/ \E ids \in LiveLists, trigger \in Triggers : Submit(ids, trigger, MaxLiveTasks)
    \/ \E t \in 1..MaxLiveTasks : RequestCancel(t, TRUE)
    \/ StartTask
    \/ \E t \in 1..MaxLiveTasks : LoopHead(t)
    \/ \E t \in 1..MaxLiveTasks : RegisterHook(t)
    \/ \E t \in 1..MaxLiveTasks, kind \in {"ok", "raise", "cancelled"},
          err \in ErrorTexts, dur \in Durations : ExecReturn(t, kind, err, dur)
    \/ \E t \in 1..MaxLiveTasks : UpdateState(t, TRUE, TRUE)
    \/ \E t \in 1..MaxLiveTasks, ok \in BOOLEAN : Snapshot(t, ok)
    \/ \E t \in 1..MaxLiveTasks, reachable \in BOOLEAN : Probe(t, reachable, TRUE)
    \/ \E t \in 1..MaxLiveTasks : Cleanup(t)

SpecLive ==
    /\ InitLive /\ [][NextLive]_vars
    /\ WF_vars(StartTask)
    /\ WF_vars(\E t \in 1..MaxLiveTasks : LoopHead(t))
    /\ WF_vars(\E t \in 1..MaxLiveTasks, kind \in {"ok", "raise", "cancelled"},
                  err \in ErrorTexts, dur \in Durations : ExecReturn(t, kind, err, dur))
    /\ WF_vars(\E t \in 1..MaxLiveTasks : UpdateState(t, TRUE, TRUE))
    /\ WF_vars(\E t \in 1..MaxLiveTasks, ok \in BOOLEAN : Snapshot(t, ok))
    /\ WF_vars(\E t \in 1..MaxLiveTasks, reachable \in BOOLEAN : Probe(t, reachable, TRUE))
    /\ WF_vars(\E t \in 1..MaxLiveTasks : Cleanup(t))

-----------------------------------------------------------------------------
(* The advanced tick over more identities than a batch takes, with equal   *)
(* and different scores and identities in backoff.                         *)

\* refresh states: never attempted; attempted 60 s ago, 30 s average
\* (score 3); 120 s ago, 60 s average (score 3); 120 s ago, 30 s average
\* (score 5); and attempted 60 s ago, in backoff
OrderStates(now_ts) ==
    {AbsentState,
     StoredState(now_ts - 60, 30000, 0),
     StoredState(now_ts - 120, 60000, 0),
     StoredState(now_ts - 120, 30000, now_ts - 60),
     StoredState(now_ts - 60, 30000, now_ts + 900)}

InitOrder ==
    /\ tasks = <<>>
    /\ queue = <<>>
    /\ current = None
    /\ holders = {}
    /\ now = T0
    /\ cfg = [InitConfig EXCEPT !.max_batch = 5]
    /\ polling = InitPolling
    /\ accounts = [i \in 1..MaxOrderAccounts |-> Account(AccountId(i), now + 600)]
    /\ store \in [{AccountId(i) : i \in 1..MaxOrderAccounts} -> OrderStates(now)]
    /\ mihomo = InitMihomo(<<"n1">>)

SpecOrder == InitOrder /\ [][NextTick]_vars

-----------------------------------------------------------------------------
(* The average duration of one identity: earlier attempts that failed      *)
(* after a millisecond each, up to MaxStreak of them, and one batch whose  *)
(* executor call takes 1 ms, half a second or 30 s, or raises.             *)

AvgLists == {<<"a">>}
AvgDurations == {1, 500, 30000}

NextAvg ==
    \/ \E err \in ErrorTexts : UpdateScheduledRefreshStateSync("a", FALSE, 1, err)
    \/ \E ids \in AvgLists : Submit(ids, "manual", MaxAvgTasks)
    \/ StartTask
    \/ \E t \in 1..MaxAvgTasks : LoopHead(t)
    \/ \E t \in 1..MaxAvgTasks : RegisterHook(t)
    \/ \E t \in 1..MaxAvgTasks, kind \in {"ok", "fail", "raise"},
          err \in ErrorTexts, dur \in AvgDurations : ExecReturn(t, kind, err, dur)
    \/ \E t \in 1..MaxAvgTasks : UpdateState(t, TRUE, TRUE)

SpecAvg == Init /\ [][NextAvg]_vars

-----------------------------------------------------------------------------
(* The scheduler loop: start_polling, stop_polling, the configuration      *)
(* switched on and off, ticks of both modes that may raise.  A sleep ends  *)
(* and the event loop resumes the coroutine, hence the weak fairness of    *)
(* the loop's steps; start, stop and the configuration are the             *)
(* environment's.                                                          *)

\* a "while True" that does not look at _is_polling
HeadTargetIgnoresStop(is_polling, enabled) == IF ~enabled THEN "sleep" ELSE "tick"

\* Where an iteration goes from the head of the loop (lines 1002-1010):
\* out of the loop, to the sleep of a disabled configuration, or into
\* _scheduled_tick.  Nothing is awaited in between.
HeadTarget(is_polling, enabled) ==
    IF ~is_polling THEN "done"
    ELSE IF ~enabled THEN "sleep"
    ELSE "tick"

\* the coroutine at the head of its loop
AtHead(loop, is_polling, enabled) ==
    LET target == HeadTarget(is_polling, enabled)
    IN [loop EXCEPT !.pc = target,
                    !.outcome = IF target = "done" THEN "returned" ELSE @]

\* start_polling (lines 994-1003): a call that finds the flag set returns;
\* otherwise the flag is set and the first iteration begins.
StartPolling ==
    /\ ~polling.is_polling
    /\ Len(polling.loops) < MaxLoops
    /\ polling' = [is_polling |-> TRUE,
                   loops |-> Append(polling.loops,
                                    AtHead([pc |-> "head", outcome |-> ""], TRUE, cfg.enabled))]
    /\ UNCHANGED <<tasks, queue, current, holders, accounts, store, now, mihomo, cfg>>

\* stop_polling (lines 1025-1027)
StopPolling ==
    /\ polling.is_polling
    /\ polling' = [polling EXCEPT !.is_polling = FALSE]
    /\ UNCHANGED <<tasks, queue, current, holders, accounts, store, now, mihomo, cfg>>

\* config.retry.scheduled_refresh_enabled is changed
SetEnabled(b) ==
    /\ cfg.enabled # b
    /\ cfg' = [cfg EXCEPT !.enabled = b]
    /\ UNCHANGED <<tasks, queue, current, holders, accounts, store, now, mihomo, polling>>

\* asyncio.sleep returns (lines 1007, 1017) and the next iteration begins;
\* out of the loop, the "finally" clears the flag (line 1023).
PollWake(l) ==
    /\ l \in 1..Len(polling.loops)
    /\ polling.loops[l].pc = "sleep"
    /\ LET loop == AtHead(polling.loops[l], polling.is_polling, cfg.enabled)
       IN polling' = [is_polling |-> IF loop.pc = "done" THEN FALSE ELSE polling.is_polling,
                      loops |-> [polling.loops EXCEPT ![l] = loop]]
    /\ UNCHANGED <<tasks, queue, current, holders, accounts, store, now, mihomo, cfg>>

\* _scheduled_tick (line 1010).  raises: the tick raises, the error is
\* logged by "except Exception" and the "finally" clears the flag (lines
\* 1020-1023), start_polling returning normally.  In simple mode the tick
\* is check_and_refresh("scheduled"), in advanced mode the critical section
\* up to the selection; both take the lock.
PollTick(l, mode, raises) ==
    /\ l \in 1..Len(polling.loops)
    /\ polling.loops[l].pc = "tick"
    /\ LockFree(holders)
    /\ IF raises
       THEN /\ polling' = [is_polling |-> FALSE,
                           loops |-> [polling.loops EXCEPT
                                         ![l] = [pc |-> "done", outcome |-> "error_logged"]]]
            /\ UNCHANGED <<tasks, queue, holders>>
       ELSE IF mode = "simple"
       THEN LET r == CheckAndRefresh(tasks, queue, accounts, now, cfg, "scheduled")
            IN /\ r.created => Len(tasks) < MaxPollTasks
               /\ tasks' = r.tasks
               /\ queue' = r.queue
               /\ polling' = [polling EXCEPT !.loops[l].pc = "sleep"]
               /\ UNCHANGED holders
       ELSE LET built == BuildAdvancedScheduledCandidates(accounts, store, now, cfg.window)
            IN IF QueueBusy(tasks) \/ built.candidates = <<>>
               THEN /\ polling' = [polling EXCEPT !.loops[l].pc = "sleep"]
                    /\ UNCHANGED <<tasks, queue, holders>>
               ELSE /\ holders' = holders \cup
                          {[kind |-> "tick", ids |-> SelectedIds(built.candidates, MaxBatch(cfg))]}
                    /\ polling' = [polling EXCEPT !.loops[l].pc = "enqueue"]
                    /\ UNCHANGED <<tasks, queue>>
    /\ UNCHANGED <<current, accounts, store, now, mihomo, cfg>>

\* the advanced tick's _start_login_locked (line 992), the release of the
\* lock and the sleep that follows (line 1017)
PollEnqueue(l) ==
    /\ l \in 1..Len(polling.loops)
    /\ polling.loops[l].pc = "enqueue"
    /\ \E h \in holders :
          /\ h.kind = "tick"
          /\ LET r == StartLoginLocked(tasks, queue, h.ids, "scheduled")
             IN /\ r.created => Len(tasks) < MaxPollTasks
                /\ tasks' = r.tasks
                /\ queue' = r.queue
          /\ holders' = holders \ {h}
    /\ polling' = [polling EXCEPT !.loops[l].pc = "sleep"]
    /\ UNCHANGED <<current, accounts, store, now, mihomo, cfg>>

TickModes == {"simple", "advanced"}

InitPoll ==
    /\ tasks = <<>>
    /\ queue = <<>>
    /\ current = None
    /\ holders = {}
    /\ accounts = InitAccounts
    /\ store = [i \in IDS |-> AbsentState]
    /\ now = T0
    /\ mihomo = InitMihomo(<<"n1">>)
    /\ \E b \in BOOLEAN : cfg = [InitConfig EXCEPT !.enabled = b]
    /\ polling = InitPolling

NextPoll ==
    \/ StartPolling
    \/ StopPolling
    \/ \E b \in BOOLEAN : SetEnabled(b)
    \/ \E l \in 1..MaxLoops : PollWake(l)
    \/ \E l \in 1..MaxLoops, mode \in TickModes, raises \in BOOLEAN : PollTick(l, mode, raises)
    \/ \E l \in 1..MaxLoops : PollEnqueue(l)

SpecPoll ==
    /\ InitPoll /\ [][NextPoll]_vars
    /\ WF_vars(\E l \in 1..MaxLoops : PollWake(l))
    /\ WF_vars(\E l \in 1..MaxLoops, mode \in TickModes, raises \in BOOLEAN :
                  PollTick(l, mode, raises))
    /\ WF_vars(\E l \in 1..MaxLoops : PollEnqueue(l))

-----------------------------------------------------------------------------
(* Simple mode: ticks that call check_and_refresh, at any time, next to    *)
(* manual submits and the runs of the tasks; identities of every kind, one *)
(* of them in backoff; ACCOUNTS_CONFIG set in the environment or not.      *)

SimpleLists == {<<"c">>}

InitSimple ==
    /\ tasks = <<>>
    /\ queue = <<>>
    /\ current = None
    /\ holders = {}
    /\ now = T0
    /\ \E env \in BOOLEAN :
          cfg = [InitConfig EXCEPT !.rotate_every = 0, !.accounts_config = env]
    /\ polling = InitPolling
    /\ \E ka \in AccountKinds, kc \in {"soon", "beyond"} :
          accounts = <<AccountOfKind("a", ka, now, cfg.window),
                       Account("b", now + 600),
                       AccountOfKind("c", kc, now, cfg.window)>>
    /\ store = [i \in IDS |->
                  IF i = "b"
                  THEN NewRefreshState(AbsentState, FALSE, 30000, "dns error", now - 60)
                  ELSE AbsentState]
    /\ mihomo = InitMihomo(<<"n1">>)

NextSimple ==
    \/ \E ids \in SimpleLists : Submit(ids, "manual", MaxSimpleTasks)
    \/ SimpleTick(MaxSimpleTasks)
    \/ StartTask
    \/ \E t \in 1..MaxSimpleTasks : LoopHead(t)
    \/ \E t \in 1..MaxSimpleTasks : RegisterHook(t)
    \/ \E t \in 1..MaxSimpleTasks, kind \in {"ok", "fail"},
          err \in ErrorTexts, dur \in Durations : ExecReturn(t, kind, err, dur)
    \/ \E t \in 1..MaxSimpleTasks : UpdateState(t, TRUE, TRUE)

SpecSimple == InitSimple /\ [][NextSimple]_vars

-----------------------------------------------------------------------------
(* Cancellation of manual batches.  The executor call returns (the login   *)
(* has its timeouts and a quit browser fails it) and the event loop        *)
(* resumes the coroutine that waits for it, hence the weak fairness.       *)

CancelLists == {<<"a", "b">>}

NextCancel ==
    \/ \E ids \in CancelLists : Submit(ids, "manual", MaxCancelTasks)
    \/ \E t \in 1..MaxCancelTasks, page_open \in BOOLEAN : RequestCancel(t, page_open)
    \/ StartTask
    \/ \E t \in 1..MaxCancelTasks : LoopHead(t)
    \/ \E t \in 1..MaxCancelTasks : RegisterHook(t)
    \/ \E t \in 1..MaxCancelTasks, kind \in {"ok", "fail", "raise", "cancelled"},
          err \in ErrorTexts, dur \in Durations : ExecReturn(t, kind, err, dur)
    \/ \E t \in 1..MaxCancelTasks : UpdateState(t, TRUE, TRUE)
    \/ \E t \in 1..MaxCancelTasks : Cleanup(t)

SpecCancel ==
    /\ InitRun /\ [][NextCancel]_vars
    /\ WF_vars(\E t \in 1..MaxCancelTasks : LoopHead(t))
    /\ WF_vars(\E t \in 1..MaxCancelTasks, kind \in {"ok", "fail", "raise", "cancelled"},
                  err \in ErrorTexts, dur \in Durations : ExecReturn(t, kind, err, dur))
    /\ WF_vars(\E t \in 1..MaxCancelTasks : UpdateState(t, TRUE, TRUE))

-----------------------------------------------------------------------------
(* Properties *)

TaskIds == 1..Len(tasks)
HasStatus(t, st) == tasks[t].status = st
SomeActive == \E t \in TaskIds : tasks[t].status \in {PENDING, RUNNING}

\* C1: at most one task is RUNNING, the running task owns the orchestrator,
\* and every other task that has not ended is PENDING in the queue: it
\* cannot start before the owner has released.
C1_SingleRunning ==
    /\ Cardinality({t \in TaskIds : HasStatus(t, RUNNING)}) <= 1
    /\ \A t \in TaskIds : HasStatus(t, RUNNING) => current = t
    /\ \A t \in TaskIds : HasStatus(t, PENDING) <=> t \in Range(queue)
    /\ current # None => current \in TaskIds /\ ~HasStatus(current, PENDING)

C1_Witness ==
    \E t, u \in TaskIds :
        /\ HasStatus(t, RUNNING) /\ tasks[t].progress >= 1
        /\ HasStatus(u, PENDING)

\* C2: from a state in which some task is PENDING or RUNNING, no step lets
\* an advanced tick past its idle check: no selection is made and the task
\* set and the queue are left as they were by the tick.
C2_SkipIfBusy ==
    [][SomeActive /\ holders = {} => holders' = {}]_vars

\* a busy state in which the tick has candidates: only the idle check stops it
C2_Witness ==
    /\ holders = {}
    /\ \E t \in TaskIds : HasStatus(t, RUNNING) /\ tasks[t].progress >= 1
    /\ BuildAdvancedScheduledCandidates(accounts, store, now, cfg.window).candidates # <<>>

\* C3: while an advanced tick is between its idle check and its enqueue it
\* is the only admission inside the lock and no task is PENDING or RUNNING:
\* what it observed still holds when it enqueues, under every interleaving.
C3_TickAtomic ==
    /\ Cardinality(holders) <= 1
    /\ holders # {} => ~SomeActive

C3_Witness ==
    \E h \in holders : h.kind = "tick" /\ Len(h.ids) = 2 /\ Len(tasks) >= 1


\* request lists: ids a task has or does not have, a list in both orders,
\* a part of a list, a list with more, and an id twice
AnyLists == {<<>>, <<"a">>, <<"b">>, <<"a", "b">>, <<"b", "a">>, <<"b", "c">>, <<"c", "c">>}
NonEmptyLists == AnyLists \ {<<>>}

\* what start_login(ids, trigger) would do in the current state
Outcome(ids, trigger) == StartLoginLocked(tasks, queue, ids, trigger)

\* C4: in every reachable state with a PENDING or RUNNING task, a manual
\* submit of any non-empty list creates no task and enqueues nothing: it
\* returns a PENDING/RUNNING task whose account_ids afterwards hold exactly
\* its previous ids and the requested ids; no other task changes.
C4_ManualMerge ==
    (holders = {} /\ SomeActive) =>
        \A ids \in NonEmptyLists : \A r \in {Outcome(ids, "manual")} :
            /\ ~r.created /\ ~r.error
            /\ Len(r.tasks) = Len(tasks) /\ r.queue = queue
            /\ r.ret \in TaskIds
            /\ tasks[r.ret].status \in {PENDING, RUNNING}
            /\ Range(r.tasks[r.ret].account_ids) =
                   Range(tasks[r.ret].account_ids) \cup Range(ids)
            /\ \A u \in TaskIds \ {r.ret} : r.tasks[u] = tasks[u]

\* a manual task that holds the union of two requests
C4_Witness ==
    \E t \in TaskIds :
        /\ tasks[t].trigger = "manual" /\ tasks[t].account_ids = <<"a", "b">>
        /\ HasStatus(t, PENDING)

\* C5: a manual merge keeps the previous account_ids as a prefix and leaves
\* every other field of the task as it was; when all requested ids are already
\* there nothing changes at all; and submitting the same list again right
\* after changes nothing more.
C5_MergeIdempotent ==
    (holders = {} /\ SomeActive) =>
        \A ids \in NonEmptyLists : \A r \in {Outcome(ids, "manual")} :
            \A again \in {StartLoginLocked(r.tasks, r.queue, ids, "manual")} :
                LET before == tasks[r.ret]
                    after == r.tasks[r.ret]
                IN /\ IsPrefix(before.account_ids, after.account_ids)
                   /\ [after EXCEPT !.account_ids = before.account_ids] = before
                   /\ Range(ids) \subseteq Range(before.account_ids) => r.tasks = tasks
                   /\ again.tasks = r.tasks /\ again.queue = r.queue
                   /\ again.ret = r.ret

\* a merge landed on a task that was already running
C5_Witness ==
    \E t \in TaskIds :
        /\ tasks[t].trigger = "manual" /\ tasks[t].account_ids = <<"a", "b">>
        /\ HasStatus(t, RUNNING) /\ tasks[t].progress = 1

\* C6: a scheduled submit of a non-empty list returns an existing task and
\* creates nothing exactly when a PENDING/RUNNING task has the same ordered
\* list; otherwise it appends one new PENDING task with that list and
\* enqueues it.
C6_ScheduledDedupe ==
    holders = {} =>
        \A ids \in NonEmptyLists : \A r \in {Outcome(ids, "scheduled")} :
            LET same == {t \in TaskIds : tasks[t].account_ids = ids
                                         /\ tasks[t].status \in {PENDING, RUNNING}}
            IN /\ ~r.error
               /\ ~r.created <=> same # {}
               /\ ~r.created => r.ret \in same /\ r.tasks = tasks /\ r.queue = queue
               /\ r.created =>
                    /\ r.ret = Len(tasks) + 1
                    /\ r.tasks = Append(tasks, NewTask(ids, "scheduled"))
                    /\ r.tasks[r.ret].status = PENDING
                    /\ r.queue = Append(queue, r.ret)

\* two live tasks with the same identities in different orders
C6_Witness ==
    \E t, u \in TaskIds :
        /\ tasks[t].account_ids = <<"b", "a">> /\ tasks[t].status \in {PENDING, RUNNING}
        /\ tasks[u].account_ids = <<"a", "b">> /\ tasks[u].status = PENDING
        /\ tasks[u].trigger = "scheduled"

\* C7: a submit of the empty list is an error for either trigger, with or
\* without a PENDING/RUNNING task, and leaves the task set and the queue
\* as they were.
C7_EmptyRejected ==
    \A trigger \in Triggers : \A r \in {Outcome(<<>>, trigger)} :
        r.error /\ ~r.created /\ r.ret = None /\ r.tasks = tasks /\ r.queue = queue

\* both cases of the claim: a state with a live task and the lock free
C7_Witness ==
    /\ holders = {}
    /\ \E t \in TaskIds : HasStatus(t, RUNNING) /\ tasks[t].trigger = "manual"
    /\ \E t \in TaskIds : HasStatus(t, PENDING)


\* numbers of successful and failed results of a task
Successes(task) == Cardinality({i \in 1..Len(task.results) : task.results[i].success})
Failures(task) == Cardinality({i \in 1..Len(task.results) : ~task.results[i].success})

\* the hook's outcomes in which the rotation coordinator went past its
\* trigger and cancellation guards
Invoked == {"disabled", "no_secret", "below_threshold", "attempt",
            "switched", "error", "none_reachable", "empty"}

\* the run loop of the task has left its list behind
Exhausted(task) == task.pc \in {"snapshot", "probe", "done"} /\ task.status # CANCELLED

\* C8: a task that went through its whole list without cancellation has
\* status SUCCESS exactly when fail_count = 0 and FAILED exactly when
\* fail_count >= 1; every identity of the list has a result; success_count
\* and fail_count are the numbers of successful and failed results; and a
\* scheduled task has had the rotation coordinator invoked in both cases.
C8_TerminalStatus ==
    \A t \in TaskIds :
        LET task == tasks[t]
        IN /\ Exhausted(task) <=> task.status \in {SUCCESS, FAILED}
           /\ task.status \in {SUCCESS, FAILED} =>
                /\ task.status = SUCCESS <=> task.fail_count = 0
                /\ task.status = FAILED <=> task.fail_count >= 1
                /\ task.progress = Len(task.account_ids)
                /\ task.success_count = Successes(task)
                /\ task.fail_count = Failures(task)
                /\ task.success_count + task.fail_count = Len(task.account_ids)
                /\ task.trigger = "scheduled" => task.hook \in Invoked
                /\ task.trigger = "manual" => task.hook \in {"not_called", "manual"}

\* the scenario of the claim: three identities, two succeed, one fails
C8_Witness ==
    \E t \in TaskIds :
        /\ tasks[t].trigger = "scheduled" /\ Len(tasks[t].account_ids) = 3
        /\ tasks[t].status = FAILED /\ tasks[t].finished
        /\ tasks[t].success_count = 2 /\ tasks[t].fail_count = 1
        /\ tasks[t].hook = "switched"

\* C9: a failure of the executor, returned or raised, is one failed result
\* of that identity with its message; progress counts every result and
\* fail_count the failed ones; and a task with a failure and no cancel
\* request is still going through its list or has gone through all of it.
C9_FailureContinues ==
    \A t \in TaskIds :
        LET task == tasks[t]
        IN /\ task.progress = Len(task.results)
           /\ task.fail_count = Failures(task)
           /\ \A i \in 1..Len(task.results) :
                ~task.results[i].success =>
                    /\ task.results[i].error \in ErrorTexts
                    /\ task.results[i].email = task.account_ids[i]
           /\ (task.fail_count >= 1 /\ ~task.cancel_requested) =>
                \/ task.status = RUNNING /\ task.pc \in {"head", "exec", "login", "update"}
                \/ task.status = FAILED /\ task.progress = Len(task.account_ids)

\* an identity is processed after the first one raised
C9_Witness ==
    \E t \in TaskIds :
        /\ Len(tasks[t].results) = 3 /\ ~tasks[t].cancel_requested
        /\ ~tasks[t].results[1].success /\ tasks[t].results[1].duration_ms = 0
        /\ tasks[t].results[2].success /\ ~tasks[t].results[3].success
        /\ tasks[t].results[3].duration_ms > 0

\* C10: the i-th result of a task is the outcome of its i-th account id,
\* also for ids that manual merges appended while the task was running;
\* there are never more results than ids, and at most one identity is
\* being refreshed at any time, by the task that owns the orchestrator.
C10_ResultsInOrder ==
    /\ \A t \in TaskIds :
          /\ Len(tasks[t].results) <= Len(tasks[t].account_ids)
          /\ \A i \in 1..Len(tasks[t].results) :
                tasks[t].results[i].email = tasks[t].account_ids[i]
          /\ tasks[t].pc \in {"exec", "login", "update"} => current = t
    /\ Cardinality({t \in TaskIds : tasks[t].pc \in {"exec", "login"}}) <= 1

\* ids merged while the task was running have their results in place
C10_Witness ==
    \E t \in TaskIds :
        /\ tasks[t].trigger = "manual" /\ tasks[t].account_ids = <<"c", "a", "b">>
        /\ Len(tasks[t].results) = 3 /\ tasks[t].results[3].email = "b"


\* C11: once cancel_requested is set on a RUNNING task, no step starts an
\* executor call for it, its status only stays RUNNING or becomes CANCELLED,
\* the rotation coordinator neither counts its batch nor calls the rotator
\* for it, and CANCELLED is final.
C11_CancelBetweenIdentities ==
    [][\A t \in TaskIds :
          /\ (tasks[t].cancel_requested /\ HasStatus(t, RUNNING)) =>
                /\ tasks[t].pc \notin {"exec", "login"} => tasks'[t].pc \notin {"exec", "login"}
                /\ tasks'[t].status \in {RUNNING, CANCELLED}
                /\ tasks'[t].hook \in {"not_called", "manual", "cancelled"}
                /\ mihomo' = mihomo
          /\ HasStatus(t, CANCELLED) =>
                /\ tasks'[t].status = CANCELLED
                /\ tasks'[t].results = tasks[t].results
                /\ tasks'[t].hook = tasks[t].hook]_vars

\* a scheduled batch cancelled after its first identity: the others never
\* started
C11_Witness ==
    \E t \in TaskIds :
        /\ tasks[t].trigger = "scheduled" /\ HasStatus(t, CANCELLED)
        /\ tasks[t].pc = "done" /\ tasks[t].progress = 1
        /\ Len(tasks[t].account_ids) = 3 /\ tasks[t].hook = "not_called"
        /\ mihomo.batches = 0


C13_RotationOnlyScheduled ==
    [][/\ mihomo' # mihomo =>
            /\ current \in TaskIds
            /\ tasks[current].trigger = "scheduled"
            /\ tasks'[current].status \in {SUCCESS, FAILED}
       /\ \A t \in TaskIds :
            (tasks'[t].trigger = "manual" \/ tasks'[t].status = CANCELLED) =>
                /\ tasks'[t].pc \notin {"snapshot", "probe"}
                /\ tasks'[t].hook \in {"not_called", "manual", "cancelled"}]_vars

\* a manual batch and a scheduled batch cancelled during its last identity
\* have ended, and the coordinator has counted nothing and called nothing
C13_Witness ==
    /\ mihomo.batches = 0 /\ mihomo.calls = <<>>
    /\ \E t, u \in TaskIds :
          /\ tasks[t].trigger = "manual" /\ HasStatus(t, SUCCESS)
          /\ tasks[t].hook = "manual" /\ tasks[t].finished
          /\ tasks[u].trigger = "scheduled" /\ HasStatus(u, CANCELLED)
          /\ tasks[u].hook = "cancelled" /\ tasks[u].progress = 1


\* the task is inside the rotation hook, waiting for the rotator
InHook(task) == task.pc \in {"snapshot", "probe"}

\* C14: a task inside the rotation hook is the owner and not yet finished;
\* no step changes its status, progress, counts or results, whatever the
\* rotator answers; and the step that ends the hook, also after a failed
\* snapshot or select or with no reachable candidate, sets finished_at and
\* releases the orchestrator.
C14_RotationIsolated ==
    [][\A t \in TaskIds :
          InHook(tasks[t]) =>
             /\ current = t /\ ~tasks[t].finished
             /\ tasks'[t].status = tasks[t].status
             /\ tasks'[t].progress = tasks[t].progress
             /\ tasks'[t].success_count = tasks[t].success_count
             /\ tasks'[t].fail_count = tasks[t].fail_count
             /\ tasks'[t].results = tasks[t].results
             /\ \/ InHook(tasks'[t]) /\ current' = t
                \/ tasks'[t].pc = "done" /\ tasks'[t].finished /\ current' = None]_vars

\* a batch without failures whose rotation ended in a select that raised
C14_Witness ==
    \E t \in TaskIds :
        /\ HasStatus(t, SUCCESS) /\ tasks[t].hook = "error" /\ tasks[t].finished
        /\ current = None /\ Len(mihomo.calls) >= 2
        /\ mihomo.calls[Len(mihomo.calls)].op = "select"


\* the hook of task t has just decided h
Decides(t, h) == tasks[t].hook = "not_called" /\ tasks'[t].hook = h

\* the rotation attempt of task t ends with this step
AttemptEnds(t) == InHook(tasks[t]) /\ ~InHook(tasks'[t])

\* C15 as stated: whatever the outcome of probing or switching, the counter
\* is 0 when a rotation attempt ends.
C15_ResetWhateverOutcome ==
    [][\A t \in TaskIds : AttemptEnds(t) => mihomo'.batches = 0]_vars

\* C15, amended: with rotate-every N > 0 the hook counts the batch; below N
\* it returns without a rotator call; at N or above it queries the rotator;
\* the counter goes back to 0 only when a candidate was selected, and after
\* an attempt that failed it keeps its value, at least N, so that the next
\* scheduled batch attempts again.
C15_ResetOnlyOnSwitch ==
    [][\A t \in TaskIds :
          /\ Decides(t, "below_threshold") =>
                /\ mihomo'.batches = mihomo.batches + 1
                /\ mihomo'.batches < cfg.rotate_every
                /\ mihomo'.calls = mihomo.calls
                /\ tasks'[t].pc = "done"
          /\ Decides(t, "attempt") =>
                /\ mihomo'.batches = mihomo.batches + 1
                /\ mihomo'.batches >= cfg.rotate_every
                /\ tasks'[t].pc = "snapshot"
          /\ InHook(tasks[t]) /\ InHook(tasks'[t]) => mihomo'.batches = mihomo.batches
          /\ AttemptEnds(t) =>
                IF tasks'[t].hook = "switched"
                THEN mihomo'.batches = 0
                ELSE mihomo'.batches = mihomo.batches
                     /\ mihomo'.batches >= cfg.rotate_every]_vars

\* rotate every 2 batches: the first batch was counted only, the second
\* reached the threshold and found no reachable candidate, and the counter
\* is still 2
C15_Witness ==
    /\ cfg.rotate_every = 2 /\ mihomo.batches = 2 /\ Len(tasks) = 2
    /\ tasks[1].hook = "below_threshold" /\ tasks[2].hook = "none_reachable"
    /\ tasks[2].finished


\* the candidates in the order of a rotation: those after the current
\* selection, then those up to it; the list as it is when the selection
\* is not in it
RotationOrder(all, cur) ==
    IF \E i \in 1..Len(all) : all[i] = cur
    THEN LET k == CHOOSE i \in 1..Len(all) : all[i] = cur
         IN SubSeq(all, k + 1, Len(all)) \o SubSeq(all, 1, k)
    ELSE all

IsTest(c) == c.op = "test"

\* C16: in every step of the probe loop, the k-th probe of an attempt is
\* for the k-th candidate of the
\* rotation order (after the current selection, wrapping around; from the
\* first candidate when the selection is not in the list) and there are at
\* most as many probes as candidates; a probe that reports reachable is
\* followed by one select of that candidate, which ends the attempt, and
\* the group changes only to that candidate; a probe that does not is
\* followed by the next probe or, after the last candidate, by the end of
\* the attempt with no select and the group's selection as it was.
C16_ProbeOrder ==
    [][\A t \in TaskIds :
          (tasks[t].pc = "probe" /\ mihomo' # mihomo) =>
             LET order == RotationOrder(mihomo.all, mihomo.group_now)
                 k == Len(SelectSeq(mihomo.calls, IsTest)) + 1
                 test == Call("test", order[k])
                 select == Call("select", order[k])
             IN /\ k <= Len(mihomo.all)
                /\ \/ /\ mihomo'.calls = mihomo.calls \o <<test, select>>
                      /\ tasks'[t].pc = "done"
                      /\ \/ tasks'[t].hook = "switched" /\ mihomo'.group_now = order[k]
                         \/ tasks'[t].hook = "error" /\ mihomo'.group_now = mihomo.group_now
                   \/ /\ mihomo'.calls = mihomo.calls \o <<test>>
                      /\ mihomo'.group_now = mihomo.group_now
                      /\ \/ tasks'[t].pc = "probe" /\ k < Len(mihomo.all)
                         \/ /\ tasks'[t].pc = "done" /\ k = Len(mihomo.all)
                            /\ tasks'[t].hook = "none_reachable"]_vars

\* from n2 of <<n1, n2, n3>>: n3 was not reachable, n1 was, and is selected
C16_Witness ==
    /\ mihomo.calls = <<Call("get", ""), Call("test", "n3"), Call("test", "n1"),
                        Call("select", "n1")>>
    /\ mihomo.group_now = "n1"
    /\ \E t \in TaskIds : tasks[t].hook = "switched"

\* min(900 * 2^(n-1), 43200) with n taken as max(n, 1)
ExpectedBackoff(n) == Min(900 * 2 ^ (Max(n, 1) - 1), 43200)

\* C17: for the streak n of every identity, and for -n and n + 1, the
\* backoff calculator gives min(900 * 2^(max(n,1)-1), 43200); it gives
\* 14400 for 5 and 43200 for 20; it does not decrease from n to n + 1; and
\* the next_eligible_at written with a failure is the attempt's time plus
\* the backoff of the new streak.
C17_BackoffFormula ==
    \A id \in IDS :
        LET n == store[id].consecutive_failures
        IN /\ \A m \in {n, 0 - n, n + 1} :
                ComputeBackoffSeconds(m) = ExpectedBackoff(m)
           /\ n = 5 => ComputeBackoffSeconds(n) = 14400
           /\ n = 20 => ComputeBackoffSeconds(n) = 43200
           /\ ComputeBackoffSeconds(n) <= ComputeBackoffSeconds(n + 1)
           /\ ComputeBackoffSeconds(0 - n) = ComputeBackoffSeconds(1)
           /\ n >= 1 => store[id].next_eligible_at =
                           store[id].last_attempt_at + ExpectedBackoff(n)

\* one identity after 5 failures, the other after 20
C17_Witness ==
    /\ store["a"].consecutive_failures = 20 /\ store["a"].next_eligible_at = T0 + 43200
    /\ store["b"].consecutive_failures = 5 /\ store["b"].next_eligible_at = T0 + 14400

\* A service-time estimate in whole seconds, 60 when missing, floored at 1
FlooredSeconds(avg_ms) == Max((IF avg_ms = 0 THEN 60000 ELSE avg_ms) \div 1000, 1)

\* C18: now is positive, and for every identity never attempted
\* (last_attempt_at = 0) and every identity attempted now, whatever their
\* service-time estimates, the score (max(now - last_attempt_at, 0) + s) / s
\* of the first is strictly greater than that of the second, both as the
\* calculator compares them and as the fractions (now + si) / si and
\* (0 + sj) / sj cross-multiplied; and in the task the tick submits the first stands before the second.
C18_NeverAttemptedFirst ==
    /\ now > 0
    /\ \A i, j \in IDS :
          (store[i].last_attempt_at = 0 /\ store[j].last_attempt_at = now) =>
             LET si == FlooredSeconds(store[i].avg_ms)
                 sj == FlooredSeconds(store[j].avg_ms)
             IN /\ ComputeHrrnGreater(now, store[i].last_attempt_at, store[i].avg_ms,
                                      store[j].last_attempt_at, store[j].avg_ms)
                /\ (Max(now - 0, 0) + si) * sj > (Max(now - now, 0) + sj) * si
                /\ \A t \in TaskIds : \A p, q \in 1..Len(tasks[t].account_ids) :
                      (tasks[t].account_ids[p] = i /\ tasks[t].account_ids[q] = j) => p < q

\* a submitted task that puts a never-attempted identity with the longest
\* estimate before one attempted now with the shortest, and that one before
\* nobody: c is never attempted as well
C18_Witness ==
    /\ store["a"].last_attempt_at = now /\ store["a"].avg_ms = 500
    /\ store["b"].last_attempt_at = 0 /\ store["b"].avg_ms = 60000
    /\ store["c"].last_attempt_at = 0
    /\ \E t \in TaskIds : tasks[t].account_ids \in {<<"b", "c", "a">>, <<"c", "b", "a">>}

\* the accounts, by position in the load order, that are within the refresh
\* window and refreshable at all
Considered ==
    {i \in 1..Len(accounts) :
        /\ ~accounts[i].disabled
        /\ accounts[i].eligible
        /\ accounts[i].expires_at # 0
        /\ accounts[i].expires_at - now <= cfg.window}

BackedOff == {i \in Considered : store[accounts[i].id].next_eligible_at > now}

\* C19: the candidate list the selector returns for the accounts, states,
\* time and window of the state holds no disabled identity, none with
\* expires_at - now > window and none with next_eligible_at > now; it holds
\* every other identity within the window exactly once; skipped_backoff
\* counts the identities within the window whose next_eligible_at > now;
\* considered = candidates + skipped_backoff; and a task submitted by the
\* tick holds candidates only.
C19_SelectorFilters ==
    \A built \in {BuildAdvancedScheduledCandidates(accounts, store, now, cfg.window)} :
        LET ids == [k \in 1..Len(built.candidates) |-> built.candidates[k].account_id]
            allowed == {accounts[i].id : i \in Considered \ BackedOff}
        IN /\ \A k \in 1..Len(ids) : \A i \in 1..Len(accounts) :
                 accounts[i].id = ids[k] =>
                    /\ ~accounts[i].disabled
                    /\ ~(accounts[i].expires_at - now > cfg.window)
                    /\ ~(store[ids[k]].next_eligible_at > now)
           /\ Range(ids) = allowed
           /\ Len(ids) = Cardinality(allowed)
           /\ built.metrics.skipped_backoff = Cardinality(BackedOff)
           /\ built.metrics.candidates = Len(ids)
           /\ built.metrics.considered = built.metrics.candidates + built.metrics.skipped_backoff
           /\ built.metrics.considered = Cardinality(Considered)
           /\ \A t \in TaskIds : Range(tasks[t].account_ids) \subseteq allowed

\* a tick has submitted the one identity left of three within the window:
\* a is disabled, b is in backoff, c has its backoff just over
C19_Witness ==
    /\ accounts[1].disabled
    /\ 2 \in BackedOff
    /\ store["c"].next_eligible_at = now
    /\ \E t \in TaskIds : tasks[t].account_ids = <<"c">>

\* the number of candidates of the state (accounts and refresh states do
\* not change in SpecBatch)
CandidateCount == Len(BuildAdvancedScheduledCandidates(accounts, store, now, cfg.window).candidates)

\* C20 as stated: a task submitted by the advanced tick holds exactly
\* min(c, max(m, 5)) identities, for c candidates and the configured
\* maximum m, m = 0 included.
C20_BatchSizeAsStated ==
    \A t \in TaskIds :
        Len(tasks[t].account_ids) = Min(CandidateCount, Max(cfg.max_batch, 5))

\* C20, amended: a task submitted by the advanced tick holds exactly
\* min(c, max(m, 5)) identities, the c candidates' first ones in score
\* order (here the last ones in load order, backwards), where a configured maximum of 0 counts as 20; 3 candidates
\* with m = 20 give 3, 50 with m = 20 give 20, 2 with m = 1 give 2.
C20_BatchSizeZeroIsDefault ==
    \A t \in TaskIds : \A c \in {CandidateCount} :
        LET m == IF cfg.max_batch = 0 THEN 20 ELSE cfg.max_batch
            n == Len(tasks[t].account_ids)
        IN /\ c >= 1
           /\ n = Min(c, Max(m, 5))
           /\ tasks[t].account_ids = [i \in 1..n |-> accounts[c + 1 - i].id]
           /\ (c = 3 /\ cfg.max_batch = 20) => n = 3
           /\ (c = 50 /\ cfg.max_batch = 20) => n = 20
           /\ (c = 2 /\ cfg.max_batch = 1) => n = 2

\* 50 candidates and a configured maximum of 0: the task holds 20
C20_Witness ==
    /\ cfg.max_batch = 0
    /\ Len(accounts) = 50
    /\ \E t \in TaskIds : Len(tasks[t].account_ids) = 20 /\ tasks[t].trigger = "scheduled"

\* the result whose outcome task t is about to record in the store
Recording(t) == tasks[t].results[Len(tasks[t].results)]

\* task t's state update returns in this step
Records(t) == tasks[t].pc = "update" /\ tasks'[t].pc # "update"

\* C21: the state update of a successful result either writes nothing (the
\* store's write failed) or writes, in that one step, consecutive_failures
\* = 0, next_eligible_at = 0 and last_success_at = last_attempt_at = now,
\* whatever the identity's state was.
C21_SuccessResets ==
    [][\A t \in TaskIds :
          (Records(t) /\ Recording(t).success) =>
             \A id \in {Recording(t).email} :
                /\ \A other \in IDS \ {id} : store'[other] = store[other]
                /\ \/ store'[id] = store[id]
                   \/ /\ store'[id].consecutive_failures = 0
                      /\ store'[id].next_eligible_at = 0
                      /\ store'[id].last_success_at = now
                      /\ store'[id].last_attempt_at = now
                      /\ store'[id].present]_vars

\* a's success has been recorded, and b's failure after it
C21_Witness ==
    /\ store["b"].consecutive_failures = 1
    /\ store["a"].consecutive_failures = 0
    /\ store["a"].next_eligible_at = 0
    /\ store["a"].last_success_at = now
    /\ store["a"].last_attempt_at = now
    /\ \E t \in TaskIds : tasks[t].results # <<>> /\ tasks[t].results[1].success

\* C22: every refresh state in the store has consecutive_failures = 0
\* exactly when next_eligible_at = 0, and consecutive_failures is never
\* negative.
C22_StreakIffBackoff ==
    \A id \in IDS :
        /\ store[id].consecutive_failures >= 0
        /\ (store[id].consecutive_failures = 0) <=> (store[id].next_eligible_at = 0)

\* a written state in backoff after three failures, the last success kept
C22_Witness ==
    /\ store["a"].present
    /\ store["a"].consecutive_failures = 3
    /\ store["a"].next_eligible_at = T0 + 3600
    /\ store["a"].last_success_at = T0

\* the positions of identity id in a candidate list
PositionsOf(cands, id) == {k \in 1..Len(cands) : cands[k].account_id = id}

\* C23: an identity whose second consecutive failure was recorded at t has
\* next_eligible_at = t + 1800; while now < t + 1800 it is not in the
\* candidate list a tick builds; from now = t + 1800 on, if it is enabled,
\* refreshable and within the window, it is in that list once, with a wait
\* of now - t.
C23_BackoffThenReturn ==
    \A i \in 1..Len(accounts) :
        \A id \in {accounts[i].id} : \A t \in {store[id].last_attempt_at} :
            store[id].consecutive_failures = 2 =>
               /\ store[id].next_eligible_at = t + 30 * 60
               /\ \A built \in {BuildAdvancedScheduledCandidates(accounts, store, now, cfg.window)} :
                     /\ now < t + 30 * 60 => PositionsOf(built.candidates, id) = {}
                     /\ (/\ now >= t + 30 * 60
                         /\ ~accounts[i].disabled
                         /\ accounts[i].eligible
                         /\ accounts[i].expires_at # 0
                         /\ accounts[i].expires_at - now <= cfg.window) =>
                           /\ Cardinality(PositionsOf(built.candidates, id)) = 1
                           /\ \A k \in PositionsOf(built.candidates, id) :
                                 built.candidates[k].waiting_seconds = now - t

\* a, in backoff since before T0, failed for the second time at T0; a tick
\* at T0 + 1800, thirty minutes later to the second, has submitted it
C23_Witness ==
    /\ store["a"].consecutive_failures = 2
    /\ store["a"].last_attempt_at = T0
    /\ now = T0 + 1800
    /\ \E k \in TaskIds : tasks[k].trigger = "scheduled" /\ "a" \in Range(tasks[k].account_ids)

\* A refresh state, a result and a task without the error text and what is
\* derived from it
StateLessText(st) == [st EXCEPT !.last_error = ""]
ResultLessText(res) == [res EXCEPT !.error = "", !.failure_category = ""]
TaskLessText(task) ==
    [task EXCEPT !.results = [i \in 1..Len(task.results) |-> ResultLessText(task.results[i])]]

\* the store with every identity's last_error replaced by a text
Retold(st, text) ==
    [id \in DOMAIN st |-> IF st[id].present THEN [st[id] EXCEPT !.last_error = text] ELSE st[id]]

\* C24: the error text of a failure reaches nothing that scheduling reads.
\* (a) The candidates and the batch of a tick are the same whatever texts
\* the store holds.  (b) A step that records a failed result leaves, for
\* every other text it might have carried, the same task apart from the
\* text and its category.  (c) A step that writes the state of a failed
\* result writes, for every other text, the same state apart from
\* last_error.  (d) A task's final status is decided by its fail_count.
C24_ClassificationAdvisory ==
    [][/\ \A text \in ClassTexts :
             \A built \in {BuildAdvancedScheduledCandidates(accounts, Retold(store, text),
                                                            now, cfg.window)} :
                /\ built = BuildAdvancedScheduledCandidates(accounts, store, now, cfg.window)
                /\ \A h \in holders' \ holders :
                      h.ids = SelectedIds(built.candidates, MaxBatch(cfg))
       /\ \A t \in TaskIds :
             /\ (Len(tasks'[t].results) > Len(tasks[t].results)
                   /\ ~tasks'[t].results[Len(tasks'[t].results)].success) =>
                   \A text \in ClassTexts : \A res \in {tasks'[t].results[Len(tasks'[t].results)]} :
                      TaskLessText(tasks'[t]) =
                         TaskLessText([RecordResult(tasks[t],
                                          Result(res.email, FALSE, text, res.duration_ms))
                                       EXCEPT !.pc = "update", !.stopped = FALSE])
             /\ (Records(t) /\ ~Recording(t).success) =>
                   \A text \in ClassTexts : \A res \in {Recording(t)} :
                      /\ StateLessText(store'[res.email]) =
                            StateLessText(NewRefreshState(store[res.email], FALSE,
                                                          res.duration_ms, text, now))
                      /\ store'[res.email].last_error = res.error
             /\ (tasks[t].status = RUNNING /\ tasks'[t].status # RUNNING) =>
                   tasks'[t].status = IF tasks[t].fail_count = 0 THEN SUCCESS ELSE FAILED]_vars

\* a, one failure on record, has failed with a text classified as network
\* and b with one classified as captcha_or_code; the batch is FAILED
C24_Witness ==
    /\ store["a"].last_error = "dns error" /\ store["a"].consecutive_failures = 2
    /\ store["b"].last_error = "otp timeout" /\ store["b"].consecutive_failures = 1
    /\ \E t \in TaskIds :
          /\ tasks[t].status = FAILED
          /\ tasks[t].results[1].failure_category = "network"
          /\ tasks[t].results[2].failure_category = "captcha_or_code"

\* C25: a task that is RUNNING ends (SUCCESS, FAILED or CANCELLED) with
\* its coroutine done and the orchestrator no longer its own, and a task
\* that is PENDING leaves PENDING.
C25_OwnershipReleased ==
    \A t \in 1..MaxLiveTasks :
        /\ (t \in TaskIds /\ HasStatus(t, RUNNING))
              ~> (/\ t \in TaskIds
                  /\ current # t
                  /\ tasks[t].pc = "done"
                  /\ tasks[t].status \in {SUCCESS, FAILED, CANCELLED})
        /\ (t \in TaskIds /\ HasStatus(t, PENDING))
              ~> (t \in TaskIds /\ ~HasStatus(t, PENDING))

\* the first task was cancelled inside its second identity, and the task
\* queued behind it is RUNNING as the owner
C25_Witness ==
    /\ Len(tasks) = 2
    /\ tasks[1].status = CANCELLED /\ tasks[1].pc = "done"
    /\ Len(tasks[1].results) = 1 /\ tasks[1].progress = 1
    /\ tasks[2].status = RUNNING /\ current = 2

\* the place of an identity in the identity population
Place(id) == CHOOSE i \in 1..Len(accounts) : accounts[i].id = id

\* the identities a tick may take now: enabled, with mail credentials,
\* expiring within the window and not in backoff
Eligible ==
    {id \in {accounts[i].id : i \in 1..Len(accounts)} :
        /\ ~accounts[Place(id)].disabled /\ accounts[Place(id)].eligible
        /\ accounts[Place(id)].expires_at - now <= cfg.window
        /\ ~(store[id].next_eligible_at > now)}

\* W and S of an identity, in seconds and milliseconds
WaitOf(id) == IF store[id].present THEN now - store[id].last_attempt_at ELSE now
ServiceOf(id) == Max(IF store[id].present THEN store[id].avg_ms ELSE 60000, 1000)

\* (W + S)/S of x against that of y
ScoreAtLeast(x, y) == WaitOf(x) * ServiceOf(y) >= WaitOf(y) * ServiceOf(x)
ScoreEqual(x, y) == WaitOf(x) * ServiceOf(y) = WaitOf(y) * ServiceOf(x)

\* x stands before y in the order of C26
Precedes(x, y) ==
    /\ ScoreAtLeast(x, y)
    /\ ScoreEqual(x, y) => Place(x) < Place(y)

\* C26: a task submitted by the advanced tick (the store and the clock are
\* as the tick saw them) holds min(c, 5) different eligible identities;
\* each stands, in its list, before the ones with smaller scores and
\* before the ones of equal score that come later in the population, and
\* each precedes in that order every eligible identity left out.
C26_BatchIsTopByScore ==
    \A t \in TaskIds :
        LET ids == tasks[t].account_ids
            taken == {ids[i] : i \in 1..Len(ids)}
        IN /\ taken \subseteq Eligible
           /\ Cardinality(taken) = Len(ids)
           /\ Len(ids) = Min(Cardinality(Eligible), 5)
           /\ \A i, j \in 1..Len(ids) : i < j => Precedes(ids[i], ids[j])
           /\ \A y \in taken, x \in Eligible \ taken : Precedes(y, x)

\* six eligible identities; the second and the fourth have equal scores
\* from different waits and averages; the second is taken and the fourth,
\* alone, is left out
C26_Witness ==
    /\ Cardinality(Eligible) = 6
    /\ ScoreEqual(accounts[2].id, accounts[4].id)
    /\ WaitOf(accounts[2].id) # WaitOf(accounts[4].id)
    /\ \E t \in TaskIds :
          /\ \E i \in 1..5 : tasks[t].account_ids[i] = accounts[2].id
          /\ \A i \in 1..5 : tasks[t].account_ids[i] # accounts[4].id

\* the average on record, 60 s when there is none
AvgOnRecord(st) == IF st.present THEN st.avg_ms ELSE 60000

\* C27: the state update of a failed result, of a manual or a scheduled
\* task, either writes nothing (the store's write failed) or writes the
\* streak on record plus one, next_eligible_at = now + backoff of the new
\* streak, last_attempt_at = now and the last_success_at on record; with a
\* recorded duration of 0 (the executor raised) the average on record stays.
C27_FailureIncrements ==
    [][\A t \in TaskIds :
          (Records(t) /\ ~Recording(t).success) =>
             \A id \in {Recording(t).email} :
                \/ store'[id] = store[id]
                \/ /\ store'[id].consecutive_failures = store[id].consecutive_failures + 1
                   /\ store'[id].next_eligible_at =
                         now + ExpectedBackoff(store[id].consecutive_failures + 1)
                   /\ store'[id].last_attempt_at = now
                   /\ store'[id].last_success_at = store[id].last_success_at
                   /\ Recording(t).duration_ms = 0 =>
                         store'[id].avg_ms = AvgOnRecord(store[id])]_vars

\* the average an update starts from: the one on record, at least 1 s
AvgRead(st) == Max(AvgOnRecord(st), 1000)

\* C28 as stated: every average on record is at least 1 s; an update with
\* a duration d > 0 writes old*0.8 + d*0.2 (to the millisecond), old being
\* the average on record or 60 s; an update with duration 0 leaves the
\* average on record as it is.
C28_AverageAsStated ==
    [][/\ \A id \in IDS : store'[id].present => store'[id].avg_ms >= 1000
       /\ \A t \in TaskIds :
             Records(t) =>
                \A id \in {Recording(t).email}, d \in {Recording(t).duration_ms} :
                   IF d > 0
                   THEN 10 * store'[id].avg_ms - (8 * AvgOnRecord(store[id]) + 2 * d) \in -4..4
                   ELSE store'[id].avg_ms = AvgOnRecord(store[id])]_vars

\* C28, amended: the floor of 1 s is applied to the average when it is
\* read, not when it is written.  An update with a duration d > 0 writes
\* max(old, 1)*0.8 + d*0.2 (to the millisecond), old being the average on
\* record or 60 s; an update with duration 0 writes max(old, 1).  Every
\* average on record is at least 0.8 s, and the service time of every
\* candidate built from the store is at least 1 s.
C28_AverageFlooredOnRead ==
    [][/\ \A id \in IDS : store'[id].present => store'[id].avg_ms >= 800
       /\ \A c \in Range(BuildAdvancedScheduledCandidates(accounts', store', now', cfg'.window).candidates) :
             c.service_ms >= 1000
       /\ \A t \in TaskIds :
             Records(t) =>
                \A id \in {Recording(t).email}, d \in {Recording(t).duration_ms} :
                   IF d > 0
                   THEN 10 * store'[id].avg_ms - (8 * AvgRead(store[id]) + 2 * d) \in -4..4
                   ELSE store'[id].avg_ms = AvgRead(store[id])]_vars

\* an average below 1 s is on record for a, and a batch has recorded for a
\* a call of half a second, leaving 0.9 s: 1 * 0.8 + 0.5 * 0.2
C28_Witness ==
    /\ store["a"].avg_ms = 900
    /\ store["a"].consecutive_failures = MaxStreak
    /\ \E t \in TaskIds :
          /\ Len(tasks[t].results) = 1 /\ tasks[t].pc = "head"
          /\ tasks[t].results[1].duration_ms = 500
          /\ ~tasks[t].results[1].success

\* a task without what the state update hands back to it
LessUpdate(task) ==
    [task EXCEPT !.pc = "",
                 !.results = [i \in 1..Len(task.results) |->
                                 [task.results[i] EXCEPT !.next_eligible_at = 0]]]

AllSucceeded(task) == \A i \in 1..Len(task.results) : task.results[i].success

\* C29: when the state update of a result returns, with the store's load
\* and write having succeeded or failed, the result is in the task's
\* results and is counted, and the step changes nothing of the task but
\* the next_eligible_at shown in that result; the task goes on with its
\* loop, and when it ends it has one result per identity and is SUCCESS if
\* they all succeeded and FAILED if not.
C29_StoreFailureIsolated ==
    [][\A t \in TaskIds :
          /\ Records(t) =>
                /\ tasks[t].progress = Len(tasks[t].results)
                /\ tasks[t].success_count + tasks[t].fail_count = tasks[t].progress
                /\ Recording(t).email = tasks[t].account_ids[tasks[t].progress]
                /\ LessUpdate(tasks'[t]) = LessUpdate(tasks[t])
                /\ tasks'[t].pc = "head"
                /\ tasks'[t].status = RUNNING
          /\ (tasks[t].status = RUNNING /\ tasks'[t].status # RUNNING) =>
                /\ Len(tasks'[t].results) = Len(tasks'[t].account_ids)
                /\ tasks'[t].results = tasks[t].results
                /\ tasks'[t].status = IF AllSucceeded(tasks[t]) THEN SUCCESS ELSE FAILED]_vars

\* a's failure was recorded with the store's load and write both failing
\* (the state on record is the old one, and the backoff shown in the result
\* is the one of a first failure); b was processed after it, successfully,
\* and the task is FAILED
C29_Witness ==
    /\ store["a"] = PriorFailure
    /\ \E t \in TaskIds :
          /\ tasks[t].status = FAILED
          /\ Len(tasks[t].results) = 2
          /\ ~tasks[t].results[1].success
          /\ tasks[t].results[1].next_eligible_at = now + 900
          /\ tasks[t].results[2].success

LoopIds == 1..Len(polling.loops)

\* a tick of the loop is under way
InTick(loop) == loop.pc \in {"tick", "enqueue"}

\* C30: (start) the flag goes up only with a new loop coroutine, the others
\* as they were; (stop, error) it goes down only by stop_polling, which
\* touches no coroutine, or by a tick that raised, whose coroutine ends
\* with the error logged, nothing else changed; (no propagation) a
\* coroutine ends either by returning from its loop or with the error
\* logged, and then the flag is down; (after stop) a sleep that ends with
\* the flag down ends the coroutine, without a tick and with tasks, queue
\* and lock as they were; (disabled) with scheduled refresh disabled and no
\* tick under way, no step starts a tick or changes tasks, queue or lock;
\* tasks are created by ticks only; and, eventually, the flag is up again
\* or every coroutine has ended.
C30_PollingLoop ==
    /\ [][/\ (~polling.is_polling /\ polling'.is_polling) =>
                /\ Len(polling'.loops) = Len(polling.loops) + 1
                /\ \A l \in LoopIds : polling'.loops[l] = polling.loops[l]
                /\ UNCHANGED <<tasks, queue, holders>>
          /\ (polling.is_polling /\ ~polling'.is_polling) =>
                /\ UNCHANGED <<tasks, queue, holders>>
                /\ \/ polling'.loops = polling.loops
                   \/ \E l \in LoopIds :
                         /\ polling.loops[l].pc = "tick"
                         /\ polling'.loops =
                               [polling.loops EXCEPT
                                   ![l] = [pc |-> "done", outcome |-> "error_logged"]]
          /\ \A l \in LoopIds :
                /\ polling'.loops[l].outcome \in {"", "returned", "error_logged"}
                /\ polling'.loops[l].pc = "done" <=> polling'.loops[l].outcome # ""
                /\ (polling.loops[l].pc # "done" /\ polling'.loops[l].pc = "done") =>
                      ~polling'.is_polling
                /\ polling.loops[l].pc = "done" => polling'.loops[l] = polling.loops[l]
                /\ (polling.loops[l].pc = "sleep" /\ polling'.loops[l].pc # "sleep"
                       /\ ~polling.is_polling) =>
                      /\ polling'.loops[l] = [pc |-> "done", outcome |-> "returned"]
                      /\ UNCHANGED <<tasks, queue, holders>>
          /\ (~cfg.enabled /\ \A l \in LoopIds : ~InTick(polling.loops[l])) =>
                /\ UNCHANGED <<tasks, queue, holders>>
                /\ \A l \in 1..Len(polling'.loops) : ~InTick(polling'.loops[l])
          /\ tasks' # tasks =>
                \E l \in LoopIds :
                   InTick(polling.loops[l]) /\ polling'.loops[l].pc = "sleep"]_vars
    /\ []<>(polling.is_polling \/ \A l \in LoopIds : polling.loops[l].pc = "done")

\* the first loop ended with the error of a tick, logged; the second made
\* a tick that submitted a task, was stopped and has returned; scheduled
\* refresh is disabled now
C30_Witness ==
    /\ Len(polling.loops) = 2
    /\ polling.loops[1] = [pc |-> "done", outcome |-> "error_logged"]
    /\ polling.loops[2] = [pc |-> "done", outcome |-> "returned"]
    /\ ~polling.is_polling
    /\ ~cfg.enabled
    /\ \E t \in TaskIds : tasks[t].trigger = "scheduled" /\ tasks[t].status = PENDING

\* the identities a simple tick is to submit, in population order: enabled,
\* with mail credentials, with an expiry not later than the window's end;
\* next_eligible_at is not looked at
NearExpiry ==
    SelectSeq([i \in 1..Len(accounts) |-> accounts[i].id],
              LAMBDA id : \E i \in 1..Len(accounts) :
                             /\ accounts[i].id = id
                             /\ ~accounts[i].disabled /\ accounts[i].eligible
                             /\ accounts[i].expires_at # 0
                             /\ accounts[i].expires_at - now <= cfg.window)

ActiveWithList(ids) == \E t \in TaskIds : Active(tasks[t]) /\ tasks[t].account_ids = ids

\* what a simple tick does to tasks and queue from the current state
SimpleTickOutcome == CheckAndRefresh(tasks, queue, accounts, now, cfg, "scheduled")

\* C31 as stated: from every state, a simple tick with identities to submit
\* creates one PENDING scheduled task with exactly those identities, in
\* backoff or not and whatever is RUNNING or PENDING, unless a PENDING or
\* RUNNING task has exactly that list, and then it changes nothing.
C31_SimpleTickAsStated ==
    \A r \in {SimpleTickOutcome} :
        IF NearExpiry = <<>> \/ ActiveWithList(NearExpiry)
        THEN r.tasks = tasks /\ r.queue = queue
        ELSE /\ r.tasks = Append(tasks, NewTask(NearExpiry, "scheduled"))
             /\ r.queue = Append(queue, Len(tasks) + 1)

\* C31, amended: the same, unless ACCOUNTS_CONFIG is set in the
\* environment, and then a simple tick changes nothing.
C31_SimpleTickUnlessEnvConfig ==
    \A r \in {SimpleTickOutcome} :
        IF cfg.accounts_config \/ NearExpiry = <<>> \/ ActiveWithList(NearExpiry)
        THEN r.tasks = tasks /\ r.queue = queue
        ELSE /\ r.tasks = Append(tasks, NewTask(NearExpiry, "scheduled"))
             /\ r.queue = Append(queue, Len(tasks) + 1)
             /\ r.created

\* a manual task is RUNNING, and a simple tick has submitted a scheduled
\* task next to it that holds b, which is in backoff
C31_Witness ==
    /\ Len(tasks) = 2
    /\ tasks[1].trigger = "manual" /\ tasks[1].status = RUNNING
    /\ tasks[2].trigger = "scheduled" /\ tasks[2].status = PENDING
    /\ \E i \in 1..Len(tasks[2].account_ids) : tasks[2].account_ids[i] = "b"
    /\ store["b"].next_eligible_at > now

\* the executor call of task t is in flight, between its start and its
\* return to the run loop
InFlight(t) == tasks[t].pc \in {"exec", "login"}

\* the step leaves what task t has recorded, and every refresh state, as
\* they were
NothingRecorded(t) ==
    /\ tasks'[t].results = tasks[t].results
    /\ tasks'[t].progress = tasks[t].progress
    /\ tasks'[t].success_count = tasks[t].success_count
    /\ tasks'[t].fail_count = tasks[t].fail_count
    /\ store' = store

CountOutcome(t, ok) ==
    Cardinality({i \in 1..Len(tasks[t].results) : tasks[t].results[i].success = ok})

\* C33: in every state every task has progress = success_count + fail_count
\* = len(results) <= len(account_ids), the two counts being those of the
\* successful and of the failed results; no step lowers a counter or shortens
\* the results; and a step changes them only by recording one identity:
\* progress and len(results) grow by one and exactly one of success_count
\* and fail_count grows by one, according to the outcome recorded.
C33_CountersConsistent ==
    /\ [](\A t \in TaskIds :
            /\ tasks[t].progress = tasks[t].success_count + tasks[t].fail_count
            /\ tasks[t].progress = Len(tasks[t].results)
            /\ tasks[t].progress <= Len(tasks[t].account_ids)
            /\ tasks[t].success_count = CountOutcome(t, TRUE)
            /\ tasks[t].fail_count = CountOutcome(t, FALSE))
    /\ [][\A t \in TaskIds :
            \/ /\ tasks'[t].progress = tasks[t].progress
               /\ tasks'[t].success_count = tasks[t].success_count
               /\ tasks'[t].fail_count = tasks[t].fail_count
               /\ Len(tasks'[t].results) = Len(tasks[t].results)
            \/ /\ InFlight(t)
               /\ tasks'[t].progress = tasks[t].progress + 1
               /\ Len(tasks'[t].results) = Len(tasks[t].results) + 1
               /\ tasks'[t].results[Len(tasks'[t].results)].email =
                     tasks[t].account_ids[tasks[t].progress + 1]
               /\ IF tasks'[t].results[Len(tasks'[t].results)].success
                  THEN /\ tasks'[t].success_count = tasks[t].success_count + 1
                       /\ tasks'[t].fail_count = tasks[t].fail_count
                  ELSE /\ tasks'[t].success_count = tasks[t].success_count
                       /\ tasks'[t].fail_count = tasks[t].fail_count + 1]_vars

\* a batch that grew by a merge and recorded a success and two failures
C33_Witness ==
    \E t \in TaskIds :
        /\ tasks[t].account_ids = <<"c", "a", "b">>
        /\ tasks[t].progress = 3 /\ tasks[t].success_count = 1
        /\ tasks[t].fail_count = 2

\* C34: a task whose status is SUCCESS or FAILED has processed every
\* identity of its account_ids, those appended by manual merges included:
\* progress = len(account_ids), and there is a result for each position.
C34_AllProcessedAtNormalEnd ==
    \A t \in TaskIds :
        (HasStatus(t, SUCCESS) \/ HasStatus(t, FAILED)) =>
            /\ tasks[t].progress = Len(tasks[t].account_ids)
            /\ \A i \in 1..Len(tasks[t].account_ids) :
                  tasks[t].results[i].email = tasks[t].account_ids[i]

\* a batch created for c received a and b by a merge while it was PENDING or
\* RUNNING and ended normally with all three processed
C34_Witness ==
    \E t \in TaskIds :
        /\ HasStatus(t, SUCCESS) \/ HasStatus(t, FAILED)
        /\ tasks[t].account_ids = <<"c", "a", "b">>
        /\ Len(tasks[t].results) = 3

\* no identity is at two positions of the list
NoRepeat(ids) == \A i, j \in 1..Len(ids) : ids[i] = ids[j] => i = j

\* C35: in every reachable state no task's account_ids holds an identity
\* twice, and a submit of any non-empty request list, manual or scheduled, a
\* list that repeats an id included, leaves every task's account_ids without
\* a repeated identity.
C35_NoIdentityTwice ==
    /\ \A t \in TaskIds : NoRepeat(tasks[t].account_ids)
    /\ holders = {} =>
          \A ids \in NonEmptyLists, trigger \in Triggers :
              \A r \in {Outcome(ids, trigger)} :
                  \A u \in 1..Len(r.tasks) : NoRepeat(r.tasks[u].account_ids)

\* C35, for request lists that repeat no id: no task's account_ids holds an
\* identity twice, and a submit of such a list, manual or scheduled, leaves
\* it so, on the create path and on the merge path.
C35_NoRepeatFromDistinctLists ==
    /\ \A t \in TaskIds : NoRepeat(tasks[t].account_ids)
    /\ holders = {} =>
          \A ids \in {l \in NonEmptyLists : NoRepeat(l)}, trigger \in Triggers :
              \A r \in {Outcome(ids, trigger)} :
                  \A u \in 1..Len(r.tasks) : NoRepeat(r.tasks[u].account_ids)

\* a RUNNING manual task over a that received the request [b, a]: only b was
\* appended
C35_Witness ==
    \E t \in TaskIds :
        /\ tasks[t].trigger = "manual" /\ HasStatus(t, RUNNING)
        /\ tasks[t].account_ids = <<"a", "b">> /\ tasks[t].progress = 1

\* the tasks that are PENDING or RUNNING
ActiveTasks == {t \in TaskIds : Active(tasks[t])}

\* C36: with every scheduled tick in advanced mode, in every reachable state
\* at most one task is PENDING or RUNNING, and the queue holds at most one
\* task, which is that one.
C36_OneActiveTask ==
    /\ Cardinality(ActiveTasks) <= 1
    /\ Len(queue) <= 1
    /\ \A i \in 1..Len(queue) : queue[i] \in ActiveTasks

\* a manual task has ended, and the task an advanced tick made after it is
\* the only active one
C36_Witness ==
    /\ Len(tasks) = 2
    /\ tasks[1].trigger = "manual" /\ ~Active(tasks[1])
    /\ tasks[2].trigger = "scheduled" /\ HasStatus(2, RUNNING)
    /\ queue = <<>>

\* the loop coroutines that have a tick under way
Ticking == {l \in LoopIds : InTick(polling.loops[l])}

\* C37: in every reachable state at most one loop coroutine has a tick under
\* way, and at most one has not ended.
C37_OneLoopTicking ==
    /\ Cardinality(Ticking) <= 1
    /\ Cardinality({l \in LoopIds : polling.loops[l].pc # "done"}) <= 1

\* the step creates a scheduled task
ScheduledTaskCreated ==
    /\ Len(tasks') = Len(tasks) + 1
    /\ tasks'[Len(tasks')].trigger = "scheduled"

\* task t has ended and is inside its post-batch rotation: finished_at not
\* set, the orchestrator not released
InRotation(t) == tasks[t].pc \in {"snapshot", "probe"}

\* C38 as stated: an advanced tick creates a task only when every earlier
\* task has set finished_at and released the orchestrator; a tick that
\* arrives while a task is inside its post-batch rotation creates nothing.
C38_NoEnqueueUntilReleased ==
    [][ScheduledTaskCreated =>
          /\ current = None
          /\ \A t \in TaskIds : tasks[t].finished /\ ~InRotation(t)]_vars

\* C38, amended: an advanced tick creates a task only when no task is
\* PENDING or RUNNING; the task it creates is PENDING and queued; and a task
\* becomes RUNNING only when the orchestrator is free, every task that ran
\* before it having set finished_at and left its rotation.
C38_NoEnqueueWhileActive ==
    [][/\ ScheduledTaskCreated =>
             /\ \A t \in TaskIds : ~Active(tasks[t])
             /\ tasks'[Len(tasks')].status = PENDING
             /\ queue' = Append(queue, Len(tasks'))
       /\ \A t \in TaskIds :
             (HasStatus(t, PENDING) /\ tasks'[t].status = RUNNING) =>
                 /\ current = None
                 /\ \A u \in TaskIds \ {t} :
                       ~HasStatus(u, PENDING) => tasks[u].finished /\ ~InRotation(u)]_vars

\* the first scheduled batch has ended and is inside its rotation, still
\* the owner of the orchestrator, and a tick has enqueued a second batch
C38_Witness ==
    /\ Len(tasks) = 2
    /\ tasks[1].trigger = "scheduled" /\ InRotation(1)
    /\ tasks[1].status \in {SUCCESS, FAILED} /\ ~tasks[1].finished
    /\ current = 1
    /\ tasks[2].trigger = "scheduled" /\ HasStatus(2, PENDING)
    /\ queue = <<2>>

\* C40: in every step a task's status stays as it is, or goes from PENDING
\* to RUNNING, or from RUNNING to SUCCESS, FAILED or CANCELLED; and a task
\* whose status is SUCCESS, FAILED or CANCELLED keeps its status,
\* account_ids, progress, success_count, fail_count and results in every
\* step, be it a submit, a merge, a tick, a cancel request or an outcome of
\* the rotation.
C40_StatusLifecycle ==
    [][\A t \in TaskIds :
          /\ \/ tasks'[t].status = tasks[t].status
             \/ HasStatus(t, PENDING) /\ tasks'[t].status = RUNNING
             \/ HasStatus(t, RUNNING) /\ tasks'[t].status \in Terminal
          /\ tasks[t].status \in Terminal =>
                /\ tasks'[t].status = tasks[t].status
                /\ tasks'[t].account_ids = tasks[t].account_ids
                /\ tasks'[t].progress = tasks[t].progress
                /\ tasks'[t].success_count = tasks[t].success_count
                /\ tasks'[t].fail_count = tasks[t].fail_count
                /\ tasks'[t].results = tasks[t].results]_vars

\* a scheduled batch ended FAILED and went through its rotation; after it a
\* manual request for the same identities made a new task, and the ended
\* one kept its record
C40_Witness ==
    /\ Len(tasks) = 2
    /\ tasks[1].trigger = "scheduled" /\ HasStatus(1, FAILED)
    /\ tasks[1].hook \notin {"not_called", "attempt"} /\ tasks[1].finished
    /\ tasks[1].progress = Len(tasks[1].account_ids)
    /\ tasks[2].trigger = "manual" /\ Active(tasks[2])
    /\ \E i \in 1..Len(tasks[2].account_ids) :
          tasks[2].account_ids[i] = tasks[1].account_ids[1]

\* id is in the list of a scheduled task
InScheduledBatch(id) ==
    \E t \in TaskIds :
        /\ tasks[t].trigger = "scheduled"
        /\ \E i \in 1..Len(tasks[t].account_ids) : tasks[t].account_ids[i] = id

\* the identities of the population
Population == {accounts[i].id : i \in 1..Len(accounts)}

====
